---- MODULE Spec2Model ----
(***************************************************************************)
(* Model of the patch store (src/src/stores/patchStore.ts) together with   *)
(* the two node-connection adapters it talks to (src/src/types/node.ts,    *)
(* src/src/utils/napiNodeConnection.ts, src/src/utils/nodeConnection.ts).  *)
(*                                                                         *)
(* JavaScript runs the store single threaded: every async function is cut  *)
(* into the synchronous pieces between its awaits, and each piece is one   *)
(* action.  Reactions registered on one promise run in registration order. *)
(* An optional value (T | undefined) is a sequence of length 0 or 1.       *)
(***************************************************************************)
EXTENDS Integers, Sequences, FiniteSets, TLC

\* ---------------------------------------------------------------- bounds
\* calls of initStoreIfNeeded / fetchAllPatches running at one time
MaxFetchCalls == 2
\* calls of refetchPatch running at one time
MaxRefetchCalls == 1
\* the latest value Date.now() takes
MaxClock == 1
\* changes made to the project's patches on the node
MaxRemoteChanges == 1
\* the revisions of the patch shown in the tree, and their latest timestamp
MaxRevisions == 3

\* ------------------------------------------------------- optional values
None == <<>>
Some(x) == <<x>>
IsDefined(o) == Len(o) = 1
Val(o) == o[1]

\* ------------------------------------------------------------ data model
\* The four statuses, in the order the wire adapter requests them.
Statuses == <<"draft", "open", "archived", "merged">>

\* Patch ids are hex strings of one fixed length; a string is the sequence
\* of its characters.
PatchIds == << <<"a", "b">>, <<"b", "a">> >>

IdSet == {PatchIds[i] : i \in 1..Len(PatchIds)}

StatusSet == {Statuses[i] : i \in 1..Len(Statuses)}

\* The remote record of a patch: ver stands for every field of the patch
\* other than its id and its status (title, labels, revisions, ...).
MkPatch(id, status, ver) == [id |-> id, status |-> status, ver |-> ver]

\* { ...fetchedPatch, ...{ lastFetchedTs: nowTs } } as a new object ref.
Augment(p, nowTs, ref) ==
  [id |-> p.id, status |-> p.status, ver |-> p.ver,
   lastFetchedTs |-> nowTs, ref |-> ref]

\* The Patch fields of a cache entry (everything but the client-side stamp
\* and the object identity).
PatchOf(e) == MkPatch(e.id, e.status, e.ver)

\* Result<Data> = XOR<{ data }, { error }>
Data(d) == [data |-> Some(d), error |-> None]
Failure(msg) == [data |-> None, error |-> Some(msg)]
\* the object literal {} (neither member present)
EmptyObject == [data |-> None, error |-> None]

HasError(r) == IsDefined(r.error)
HasData(r) == IsDefined(r.data)

\* ------------------------------------------------------------- sequences
RECURSIVE Flatten(_)
Flatten(ss) == IF ss = <<>> THEN <<>> ELSE Head(ss) \o Flatten(Tail(ss))

\* (mutation) only a whole id matches
Includes_WholeOnly(str, sub) == str = sub

\* String.prototype.includes
Includes(str, sub) ==
  \E i \in 0..(Len(str) - Len(sub)) : SubSeq(str, i + 1, i + Len(sub)) = sub

\* --------------------------------------------------------------- objects
RefsOf(ps) == {ps[i].ref : i \in 1..Len(ps)}

\* An object reference no element of `used` holds.
FreshRef(used) == CHOOSE r \in 0..Cardinality(used) :
                    r \notin used /\ \A q \in 0..Cardinality(used) : q \notin used => r <= q

RECURSIVE FreshRefs(_, _)
\* n pairwise distinct fresh references
FreshRefs(used, n) ==
  IF n = 0 THEN <<>>
  ELSE LET r == FreshRef(used) IN <<r>> \o FreshRefs(used \cup {r}, n - 1)

\* ----------------------------------------------------------------- state
VARIABLES
  useNodeApi,         \* the configuration flag radicle.advanced.useNodeApi
  nodeConnection,     \* nodeConnection.ts: the memoized adapter, or "none"
  remote,             \* the node's patches: id -> [status, ver]
  clock,              \* Date.now() / 1000
  patches,            \* patchStore: ref<AugmentedPatch[]>(), optional
  lastFetchedTs,      \* patchStore: ref<number>(), optional
  inProgressRequest,  \* patchStore: the in-flight handle; 0 is undefined
  req,                \* the backend fetchAllPatches promises, by issuing call
  fcall,              \* the running calls of initStoreIfNeeded / fetchAllPatches
  rcall,              \* the running calls of refetchPatch
  returned,           \* what the step just taken returned from fetchAllPatches
  refetched,          \* what the step just taken returned from refetchPatch
  currentBranch,      \* gitStore: the branch checked out, optional
  checkedOutPatch,    \* patchStore: the value of the computed, optional
  found,              \* what the step just taken got from findPatchById
  validated,          \* what the latest call of validate() returned
  elem,               \* patches.ts: the Patch element the tree shows
  edgeRevisions,      \* patches.ts: what the latest getTreeItem(elem) selected
  diffResponse,       \* patches.ts: the diff of the latest revision, as httpd answers it
  filechangeNodes,    \* patches.ts: what the latest getChildren(elem) returned, optional
  tempFiles,          \* the files under {tmpdir}/radicle
  filechangeTreeItem, \* patches.ts: what the step just taken got from getTreeItem(node)
  rootChildren,       \* patches.ts: what the step just taken got from getChildren()
  listed,             \* the patches the node holds for the tree's requests
  radicleId,          \* getRadicleIdentity('DID'), optional
  passphrase,         \* the passphrase that unlocks the identity's key
  authed,             \* isRadicleIdentityAuthed(): the key is in the ssh-agent
  secrets,            \* getExtensionContext().secrets: the passphrase stored, optional
  acall,              \* the running call of authenticate
  authResult          \* what the step just taken returned from authenticate

vars == <<useNodeApi, nodeConnection, remote, clock, patches, lastFetchedTs,
          inProgressRequest, req, fcall, rcall, returned, refetched,
          currentBranch, checkedOutPatch, found, validated,
          elem, edgeRevisions,
          diffResponse, filechangeNodes, tempFiles, filechangeTreeItem, rootChildren, listed,
          radicleId, passphrase, authed, secrets, acall, authResult>>

\* the state of the patches tree (src/src/ux/patches.ts)
treeVars == <<elem, edgeRevisions, diffResponse, filechangeNodes, tempFiles,
              filechangeTreeItem, rootChildren, listed>>

\* the state of the identity and of its authentication
\* (src/src/ux/radicleIdentityAuth.ts)
authVars == <<radicleId, passphrase, authed, secrets, acall, authResult>>

\* the state outside the patch store and its adapters' requests
uxVars == <<validated, treeVars, authVars>>

\* the state of the patch store, its adapters and their requests
storeVars == <<useNodeApi, nodeConnection, remote, clock, patches, lastFetchedTs,
               inProgressRequest, req, fcall, rcall, returned, refetched,
               currentBranch, checkedOutPatch, found, validated>>

FetchCalls == 1..MaxFetchCalls
RefetchCalls == 1..MaxRefetchCalls

Rid == "rad:z1"

\* what memoizedGetCurrentProjectId() / the workspace can resolve to
RidChoices == {None, Some(Rid)}

\* -------------------------------------------------------- the remote node
RECURSIVE PatchesWhere(_, _, _)
\* the remote patches with a status in ss, in listing order, from index i
PatchesWhere(rem, ss, i) ==
  IF i > Len(PatchIds) THEN <<>>
  ELSE LET id == PatchIds[i] IN
       (IF rem[id].status \in ss
          THEN <<MkPatch(id, rem[id].status, rem[id].ver)>> ELSE <<>>)
       \o PatchesWhere(rem, ss, i + 1)

\* GET /projects/{rid}/patches?state=status
PatchesOfStatus(rem, status) == PatchesWhere(rem, {status}, 1)

RECURSIVE SumVer(_, _)
SumVer(rem, i) == IF i > Len(PatchIds) THEN 0 ELSE rem[PatchIds[i]].ver + SumVer(rem, i + 1)

\* where a patch goes when its author or a maintainer acts on it: a draft
\* is made ready, an open patch is merged, an archived one is reopened
NextStatus(status) ==
  CASE status = "draft" -> "open"
    [] status = "open" -> "merged"
    [] status = "archived" -> "open"
    [] OTHER -> status

\* how many changes the node's patches have seen
RemoteChanges(rem) == SumVer(rem, 1)

\* GET /projects/{rid}/patches/{id}
FetchedPatch(rem, id) == MkPatch(id, rem[id].status, rem[id].ver)

\* -------------------------------------------------------------- adapters
\* (mutation) an adapter is chosen by the setting at every call
getNodeConnection_Unmemoized(nc, flag) == IF flag THEN "napi" ELSE "classic"

\* getNodeConnection(): the memoized adapter, constructed on first use
getNodeConnection(nc, flag) ==
  IF nc # "none" THEN nc ELSE IF flag THEN "napi" ELSE "classic"

\* a backend promise nobody has created yet
NoRequest ==
  [state |-> "none", conn |-> "none", seen |-> <<>>, rejected |-> FALSE,
   results |-> <<>>, waiters |-> <<>>, issuerRet |-> "none"]

\* ClassicNode.fetchAllPatches: Promise.all over one request per status,
\* all four sent before anything is awaited.  The node answers each of
\* them at a moment of its own while the batch is in flight: `seen` lists
\* the states of the node's patches since the requests were sent.
ClassicFetchAllPatches(c, rem) ==
  [NoRequest EXCEPT !.state = "pending", !.conn = "classic", !.seen = <<rem>>,
                    !.waiters = <<c>>]

\* (mutation) the Results come back in the reverse of the status order
ClassicResponses_Reversed(seen, pick) ==
  [i \in 1..Len(Statuses) |->
     IF pick[i] = 0 THEN Failure("httpd error")
     ELSE Data(PatchesOfStatus(seen[pick[i]], Statuses[Len(Statuses) + 1 - i]))]

\* The four Results of the wire adapter, in status order: pick[i] = 0 when
\* the request for Statuses[i] came back as an error, else the index in
\* `seen` of the node state its answer was read from.
ClassicResponses(seen, pick) ==
  [i \in 1..Len(Statuses) |->
     IF pick[i] = 0 THEN Failure("httpd error")
     ELSE Data(PatchesOfStatus(seen[pick[i]], Statuses[i]))]

\* the native binding's patches(rid): every patch of the project
NapiPatches(rem) == Flatten([i \in 1..Len(Statuses) |-> PatchesOfStatus(rem, Statuses[i])])

\* NAPINode.fetchAllPatches: one synchronous binding call wrapped in a
\* one-element array; an exception of the binding rejects the promise
NapiFetchAllPatches(c, rem, throws) ==
  [NoRequest EXCEPT !.state = "pending", !.conn = "napi", !.rejected = throws,
                    !.results = IF throws THEN <<>> ELSE <<Data(NapiPatches(rem))>>,
                    !.waiters = <<c>>]

\* ClassicNode.getCurrentProjectId
ClassicGetCurrentProjectId(memo) ==
  IF ~IsDefined(memo) THEN Failure("failed to get current project id")
  ELSE Data(Val(memo))

\* ------------------------------------------------------------ patchStore
RECURSIVE FindFrom(_, _, _)
FindFrom(ps, partialOrWholeId, i) ==
  IF i > Len(ps) THEN 0
  ELSE IF Includes(ps[i].id, partialOrWholeId) THEN i
  ELSE FindFrom(ps, partialOrWholeId, i + 1)

\* Array.prototype.find over patches.value: the index of the first entry
\* whose id includes the argument, 0 when none (or patches is undefined)
findPatchIndex(ps, partialOrWholeId) ==
  IF ~IsDefined(ps) THEN 0 ELSE FindFrom(Val(ps), partialOrWholeId, 1)

\* findPatchById: the entry found, optional
findPatchById(ps, partialOrWholeId) ==
  LET i == findPatchIndex(ps, partialOrWholeId)
  IN IF i = 0 THEN None ELSE Some(Val(ps)[i])

\* the characters [0-9A-Fa-f]
HexChars ==
  {"0", "1", "2", "3", "4", "5", "6", "7", "8", "9",
   "a", "b", "c", "d", "e", "f", "A", "B", "C", "D", "E", "F"}

\* the literal part of /patch\/([0-9A-Fa-f]*)/
PatchSlash == <<"p", "a", "t", "c", "h", "/">>

RECURSIVE IndexFrom(_, _, _)
IndexFrom(str, sub, i) ==
  IF i + Len(sub) - 1 > Len(str) THEN 0
  ELSE IF SubSeq(str, i, i + Len(sub) - 1) = sub THEN i
  ELSE IndexFrom(str, sub, i + 1)

\* where the leftmost occurrence of sub starts in str, 0 when there is none
IndexOf(str, sub) == IndexFrom(str, sub, 1)

RECURSIVE HexRun(_, _)
\* the longest run of hex characters of str that starts at position i
HexRun(str, i) ==
  IF i > Len(str) \/ str[i] \notin HexChars THEN <<>>
  ELSE <<str[i]>> \o HexRun(str, i + 1)

\* currentBranch?.match(matchHexCharsAfterPatchRegex)?.[1]: the capture of
\* the leftmost match (it may be the empty string), optional
matchHexCharsAfterPatch(branch) ==
  IF ~IsDefined(branch) THEN None
  ELSE LET i == IndexOf(Val(branch), PatchSlash)
       IN IF i = 0 THEN None ELSE Some(HexRun(Val(branch), i + Len(PatchSlash)))

\* the getter of the computed checkedOutPatch; an empty capture is falsy
checkedOutPatchValue(ps, branch) ==
  LET checkedOutPatchPartialId == matchHexCharsAfterPatch(branch)
  IN IF IsDefined(checkedOutPatchPartialId) /\ Val(checkedOutPatchPartialId) # <<>>
       THEN findPatchById(ps, Val(checkedOutPatchPartialId))
       ELSE None

\* (mutation) the fetched patch is pushed without looking for its id
mergeFetchedPatch_AlwaysPush(ps, fetchedPatch, nowTs) ==
  LET list == IF IsDefined(ps) THEN Val(ps) ELSE <<>>
  IN Some(Append(list, Augment(fetchedPatch, nowTs, FreshRef(RefsOf(list)))))

\* (mutation) the outdated entry is replaced by the new object
mergeFetchedPatch_NewObject(ps, fetchedPatch, nowTs) ==
  LET i == findPatchIndex(ps, fetchedPatch.id)
      list == IF IsDefined(ps) THEN Val(ps) ELSE <<>>
      new == Augment(fetchedPatch, nowTs, FreshRef(RefsOf(list)))
  IN IF i # 0 THEN Some([list EXCEPT ![i] = new]) ELSE Some(Append(list, new))

\* refetchPatch, the merge after a successful fetchPatch
mergeFetchedPatch(ps, fetchedPatch, nowTs) ==
  LET i == findPatchIndex(ps, fetchedPatch.id)
      list == IF IsDefined(ps) THEN Val(ps) ELSE <<>>
  IN IF i # 0
       THEN Some([list EXCEPT ![i] = Augment(fetchedPatch, nowTs, list[i].ref)])
       ELSE Some(Append(list, Augment(fetchedPatch, nowTs, FreshRef(RefsOf(list)))))

\* responses.map((response) => response.error).filter(Boolean)
responseErrors(responses) ==
  Flatten([i \in 1..Len(responses) |-> responses[i].error])

\* (mutation) only the first response is looked at
responseData_FirstOnly(responses) ==
  IF HasData(responses[1]) THEN Val(responses[1].data) ELSE <<>>

\* responses.flatMap((response) => response.data).filter(Boolean)
responseData(responses) ==
  Flatten([i \in 1..Len(responses) |->
             IF HasData(responses[i]) THEN Val(responses[i].data) ELSE <<>>])

\* fetchAllPatches, the new collection: every fetched patch stamped with
\* nowTs, as objects distinct from the ones of the collection it replaces
stampFetchedPatches(responses, nowTs, ps) ==
  LET fetched == responseData(responses)
      refs == FreshRefs(IF IsDefined(ps) THEN RefsOf(Val(ps)) ELSE {}, Len(fetched))
  IN [i \in 1..Len(fetched) |-> Augment(fetched[i], nowTs, refs[i])]

\* (mutation) the batch is applied whether or not a status failed
applyResponses_IgnoringErrors(responses, nowTs, ps) ==
  [patches |-> Some(stampFetchedPatches(responses, nowTs, ps)),
   ret |-> IF Len(responseErrors(responses)) # 0 THEN "false" ELSE "true",
   pc |-> IF Len(responseErrors(responses)) # 0 THEN "return101" ELSE "return111"]

\* fetchAllPatches, what the issuing call does with the responses: the
\* new value of patches, the value returned and the line it returns from
applyResponses(responses, nowTs, ps) ==
  IF Len(responseErrors(responses)) # 0
    THEN [patches |-> ps, ret |-> "false", pc |-> "return101"]
    ELSE [patches |-> Some(stampFetchedPatches(responses, nowTs, ps)),
          ret |-> "true", pc |-> "return111"]

\* (mutation) no in-flight handle is consulted
fetchEntry_NoCoalescing(inProgress, memo) ==
  IF ~IsDefined(memo) THEN "noRid" ELSE "issue"

\* (mutation) the request is issued without a project id
fetchEntry_IgnoringMissingRid(inProgress, memo) ==
  IF inProgress # 0 THEN "await" ELSE "issue"

\* fetchAllPatches, the path a call takes on entry: await the request in
\* flight, give up for want of a project id, or issue a request
fetchEntry(inProgress, memo) ==
  IF inProgress # 0 THEN "await"
  ELSE IF ~IsDefined(memo) THEN "noRid"
  ELSE "issue"

\* (mutation) the cache is fetched whether or not it is empty
initStoreEntry_AlwaysFetch(ps) == "fetch"

\* initStoreIfNeeded, the left operand of &&: !patches.value.  An array is
\* truthy whatever its length.
initStoreEntry(ps) == IF IsDefined(ps) THEN "false" ELSE "fetch"

\* fetchAllPatches, what a call that awaited the in-flight request returns
coalescedReturn(responses) == "true"

\* (mutation) the reaction of the latest awaiter runs first
registerReaction_First(waiters, c) == <<c>> \o waiters

\* `await` on a promise: the reactions of a promise run in the order they
\* were registered in
registerReaction(waiters, c) == Append(waiters, c)

\* (mutation) the handle is cleared with .then, on fulfilment only
handleAfterSettle_KeptOnRejection(inProgress, rejected) ==
  IF rejected THEN inProgress ELSE 0

\* .finally(() => (inProgressRequest = undefined)): the handle once the
\* backend promise settled, fulfilled or rejected
handleAfterSettle(inProgress, rejected) == 0

\* --------------------------------------------------------- the patch tree
\* a Revision: oid names the object, timestamp is in Unix seconds
MkRevision(oid, timestamp) == [oid |-> oid, timestamp |-> timestamp]

RevisionTimestamps == 0..MaxRevisions

\* the Patch the tree shows before anybody revised it
InitialElem == [id |-> PatchIds[1], revisions |-> <<MkRevision(1, 0)>>]

\* what getChildren() returns for the root: an optional message string
\* followed by patches
RootChildren(message, ps) == [message |-> message, patches |-> ps]

\* the patches of the project the tree lists
ListedIds == <<"a1", "b2", "c3">>

\* a node that holds no patch for the tree
NothingListed == [i \in 1..Len(ListedIds) |-> None]

\* the root before getChildren() was called
NoRootChildren ==
  [called |-> FALSE, responses |-> <<>>, ret |-> RootChildren(None, <<>>)]

\* Array.prototype.sort: the elements of arr by ascending rank (rank[i] is
\* the place the comparator gives arr[i]); it is stable, elements the
\* comparator holds equal keep their order
StableSort(arr, rank) ==
  LET n == Len(arr)
      pos(i) == 1 + Cardinality({j \in 1..n : \/ rank[j] < rank[i]
                                              \/ rank[j] = rank[i] /\ j < i})
  IN [k \in 1..n |-> arr[CHOOSE i \in 1..n : pos(i) = k]]

\* [...revisions].sort((p1, p2) => p1.timestamp - p2.timestamp)
revisionsSortedOldestFirst(revisions) ==
  StableSort(revisions, [i \in 1..Len(revisions) |-> revisions[i].timestamp])

\* (mutation) the edge revisions are read off the stored order
getFirstAndLatestRevisions_Unsorted(patch) ==
  [firstRevision |-> patch.revisions[1],
   latestRevision |-> patch.revisions[Len(patch.revisions)],
   revisions |-> patch.revisions]

\* getFirstAndLatestRevisions(patch): index 0 and .at(-1) of a sorted copy;
\* `revisions` is patch.revisions as the call leaves it
getFirstAndLatestRevisions(patch) ==
  LET sorted == revisionsSortedOldestFirst(patch.revisions) IN
  [firstRevision |-> sorted[1],
   latestRevision |-> sorted[Len(sorted)],
   revisions |-> patch.revisions]

\* the author pushes a revision and the tree shows the patch as fetched
\* anew; the node lists the revisions in an order of its own
RevisionPushed(timestamp, at) ==
  /\ Len(elem.revisions) < MaxRevisions
  /\ at \in 1..(Len(elem.revisions) + 1)
  /\ LET revision == MkRevision(Len(elem.revisions) + 1, timestamp) IN
       elem' = [elem EXCEPT !.revisions =
                  SubSeq(@, 1, at - 1) \o <<revision>> \o SubSeq(@, at, Len(@))]
  /\ edgeRevisions' = None
  /\ UNCHANGED <<diffResponse, filechangeNodes, tempFiles, filechangeTreeItem>>
  /\ rootChildren' = NoRootChildren
  /\ UNCHANGED listed
  /\ UNCHANGED <<storeVars, authVars>>

\* patchesTreeDataProvider.getTreeItem(elem) for a Patch
getTreeItemOfPatch ==
  LET edge == getFirstAndLatestRevisions(elem) IN
  /\ edgeRevisions' = Some([firstRevision |-> edge.firstRevision,
                            latestRevision |-> edge.latestRevision])
  /\ elem' = [elem EXCEPT !.revisions = edge.revisions]
  /\ UNCHANGED <<diffResponse, filechangeNodes, tempFiles, filechangeTreeItem>>
  /\ rootChildren' = NoRootChildren
  /\ UNCHANGED listed
  /\ UNCHANGED <<storeVars, authVars>>

\* ------------------------------------------------------- the root listing
\* a Patch as the tree reads it: its id, its state.status, its revisions
MkListedPatch(id, status, revisions) ==
  [id |-> id, state |-> [status |-> status], revisions |-> revisions]

\* the revisions a listed patch may have, in the order the node stores them
RevisionLists ==
  {<<MkRevision(1, 0)>>,
   <<MkRevision(1, 1)>>,
   <<MkRevision(1, 2), MkRevision(2, 0)>>}

\* what the node holds of one listed patch: nothing, or a status and revisions
ListedChoices == {None} \cup {Some(<<s, r>>) : s \in StatusSet, r \in RevisionLists}

RECURSIVE ListedWhere(_, _, _)
\* the patches of the given status the node holds, in listing order, from index i
ListedWhere(held, status, i) ==
  IF i > Len(ListedIds) THEN <<>>
  ELSE (IF IsDefined(held[i]) /\ Val(held[i])[1] = status
          THEN <<MkListedPatch(ListedIds[i], status, Val(held[i])[2])>> ELSE <<>>)
       \o ListedWhere(held, status, i + 1)

\* Promise.all of the four fetchFromHttpd(`/projects/${rid}/patches`, ...
\* query: { state }): one Result per status, in the order of the array
RootResponses(held, failed) ==
  [i \in 1..Len(Statuses) |->
     IF Statuses[i] \in failed THEN Failure("httpd error")
     ELSE Data(ListedWhere(held, Statuses[i], 1))]

\* (mutation) the patches of a status are sorted oldest first
getPatchesOfStatusSortedByLatestRevisionFirst_OldestFirst(ps, patchStatus) ==
  LET ofStatus == SelectSeq(ps, LAMBDA patch : patch.state.status = patchStatus)
  IN StableSort(ofStatus,
       [i \in 1..Len(ofStatus) |->
          getFirstAndLatestRevisions(ofStatus[i]).latestRevision.timestamp])

\* getPatchesOfStatusSortedByLatestRevisionFirst: filter by status, then
\* sort with (p1, p2) => latestP2Revision.timestamp - latestP1Revision.timestamp
getPatchesOfStatusSortedByLatestRevisionFirst(ps, patchStatus) ==
  LET ofStatus == SelectSeq(ps, LAMBDA patch : patch.state.status = patchStatus)
  IN StableSort(ofStatus,
       [i \in 1..Len(ofStatus) |->
          0 - getFirstAndLatestRevisions(ofStatus[i]).latestRevision.timestamp])

\* getChildren(undefined), after the four responses arrived
rootChildrenOf(responses) ==
  LET errorOccured == \E i \in 1..Len(responses) : HasError(responses[i])
      ps == responseData(responses)
  IN IF errorOccured
       THEN RootChildren(Some("Not all patches may be listed due to an error!"), ps)
     ELSE IF Len(ps) = 0
       THEN RootChildren(Some("0 Radicle Patches found"), <<>>)
     ELSE RootChildren(None,
            Flatten([i \in 1..Len(Statuses) |->
                       getPatchesOfStatusSortedByLatestRevisionFirst(ps, Statuses[i])]))

\* patchesTreeDataProvider.getChildren() for the root; failed: the statuses
\* whose request comes back as an error
getChildrenOfRoot(failed) ==
  LET responses == RootResponses(listed, failed) IN
  /\ rootChildren' = [called |-> TRUE, responses |-> responses,
                      ret |-> rootChildrenOf(responses)]
  /\ UNCHANGED <<elem, edgeRevisions, diffResponse, filechangeNodes, tempFiles,
                 filechangeTreeItem, listed>>
  /\ UNCHANGED <<storeVars, authVars>>

\* ------------------------------------------------------ the changed files
\* the kinds of file change of a diff, in the order getChildren lists them
FileChangeKindsWithSourceFileAvailable == <<"added", "deleted", "modified">>
FileChangeKindsWithoutSourceFileAvailable == <<"copied", "moved">>
FilechangeKinds ==
  FileChangeKindsWithSourceFileAvailable \o FileChangeKindsWithoutSourceFileAvailable

\* the paths a diff can name: a file in the project root whose name starts
\* with a capital, and two files of one name in two directories
FilePaths == << <<"M">>, <<"l", "/", "a">>, <<"s", "/", "a">> >>

FilePathSet == {FilePaths[i] : i \in 1..Len(FilePaths)}

\* where a copied or moved file came from
FormerPath(newPath) == <<"x", "/">> \o newPath

RECURSIVE LastSlash(_, _)
\* the index of the last "/" in path[1..i], 0 when there is none
LastSlash(path, i) ==
  IF i = 0 THEN 0 ELSE IF path[i] = "/" THEN i ELSE LastSlash(path, i - 1)

\* Path.basename(path)
Basename(path) == SubSeq(path, LastSlash(path, Len(path)) + 1, Len(path))

\* Path.dirname(path): "." for a path with no directory
Dirname(path) ==
  LET slash == LastSlash(path, Len(path)) IN
  IF slash = 0 THEN <<".">> ELSE SubSeq(path, 1, slash - 1)

\* The collation weight String.prototype.localeCompare gives a character:
\* punctuation before letters, letters in alphabetical order whatever their
\* case (the case of a letter only breaks a tie, and no two of the
\* characters here are the two cases of one letter).
CollationWeight ==
  [c \in {".", "/", "a", "l", "M", "s", "x"} |->
     CASE c = "." -> 1 [] c = "/" -> 2 [] c = "a" -> 3 [] c = "l" -> 4
       [] c = "M" -> 5 [] c = "s" -> 6 [] OTHER -> 7]

RECURSIVE CompareFrom(_, _, _, _)
\* -1, 0 or 1: s against t from index i on, character by character under
\* the given weights, a proper prefix before its extensions
CompareFrom(s, t, weight, i) ==
  IF i > Len(s) /\ i > Len(t) THEN 0
  ELSE IF i > Len(s) THEN -1
  ELSE IF i > Len(t) THEN 1
  ELSE IF weight[s[i]] < weight[t[i]] THEN -1
  ELSE IF weight[s[i]] > weight[t[i]] THEN 1
  ELSE CompareFrom(s, t, weight, i + 1)

\* s.localeCompare(t)
localeCompare(s, t) == CompareFrom(s, t, CollationWeight, 1)

\* a diff with no file change
EmptyDiff == [diff |-> [kind \in {FilechangeKinds[i] : i \in 1..Len(FilechangeKinds)} |-> <<>>]]

\* an entry of diffResponse.diff[kind]
MkFilechange(kind, path) ==
  IF kind \in {"copied", "moved"}
    THEN [oldPath |-> FormerPath(path), newPath |-> path]
    ELSE [path |-> path]

\* the diff in which the paths of `listing`, in that order, changed as
\* changeOf says
DiffOf(changeOf, listing) ==
  [diff |-> [kind \in DOMAIN EmptyDiff.diff |->
     LET picked == SelectSeq(listing, LAMBDA path : changeOf[path] = kind) IN
     [i \in 1..Len(picked) |-> MkFilechange(kind, picked[i])]]]

\* the orders httpd can list the paths in
Listings ==
  {l \in [1..Len(FilePaths) -> FilePathSet] :
     \A i, j \in 1..Len(FilePaths) : i # j => l[i] # l[j]}

\* the diffs httpd can answer with: every path unchanged or changed in one way
DiffResponses ==
  {DiffOf(changeOf, listing) :
     changeOf \in [FilePathSet -> DOMAIN EmptyDiff.diff \cup {"unchanged"}],
     listing \in Listings}

\* the temp file of one side of a file change:
\* {prefix}/{shortenHash(commit)}/{fileLocation}/{filename}
VersionFileLocation(commit, path) ==
  [commit |-> commit, fileLocation |-> Dirname(path), filename |-> Basename(path)]

\* {prefix}/empty
emptyFileLocation == [commit |-> "none", fileLocation |-> <<>>, filename |-> <<"e", "m", "p", "t", "y">>]

\* the FilechangeNode getChildren builds for one entry of the diff
MkFilechangeNode(kind, filechange) ==
  LET resolvedPath == IF kind \in {"copied", "moved"} THEN filechange.newPath
                      ELSE filechange.path IN
  [resolvedPath |-> resolvedPath, filename |-> Basename(resolvedPath),
   filechangeKind |-> kind, shouldShowPathInDescription |-> FALSE]

\* the nodes of all entries: added, deleted, modified, then copied, moved
nodesOfDiff(response) ==
  Flatten([k \in 1..Len(FilechangeKinds) |->
     LET kind == FilechangeKinds[k] IN
     [i \in 1..Len(response.diff[kind]) |->
        MkFilechangeNode(kind, response.diff[kind][i])]])

\* (mutation) a node is never told to show its directory
enableShowingPaths_Never(nodes) == nodes

\* the pass over all nodes: a node whose filename another node of the list
\* has, too, is told to show its path
enableShowingPaths(nodes) ==
  [i \in 1..Len(nodes) |->
     [nodes[i] EXCEPT !.shouldShowPathInDescription =
        \E j \in 1..Len(nodes) : j # i /\ nodes[j].filename = nodes[i].filename]]

\* (mutation) the nodes stay in the order of the diff
sortByResolvedPath_Unsorted(nodes) == nodes

\* .sort((n1, n2) => n1.resolvedPath.localeCompare(n2.resolvedPath))
sortByResolvedPath(nodes) ==
  StableSort(nodes,
    [i \in 1..Len(nodes) |->
       Cardinality({j \in 1..Len(nodes) :
          localeCompare(nodes[j].resolvedPath, nodes[i].resolvedPath) < 0})])

\* the filechangeNodes of getChildren(elem) for a Patch
filechangeNodesOf(response) == sortByResolvedPath(enableShowingPaths(nodesOfDiff(response)))

\* the TreeItem of a FilechangeNode
filechangeTreeItemOf(node) ==
  [label |-> node.filename,
   description |-> IF node.shouldShowPathInDescription
                     THEN Some(Dirname(node.resolvedPath)) ELSE None]

\* the temp files getTreeItem writes for a node
versionFileLocations(node) ==
  CASE node.filechangeKind = "added" -> {VersionFileLocation("oid", node.resolvedPath)}
    [] node.filechangeKind = "deleted" -> {VersionFileLocation("base", node.resolvedPath)}
    [] node.filechangeKind = "modified" ->
         {VersionFileLocation("base", node.resolvedPath),
          VersionFileLocation("oid", node.resolvedPath)}
    [] OTHER -> {}

\* getTreeItem was not called in the step just taken
NoTreeItem == [called |-> FALSE, node |-> 0, item |-> None, logged |-> FALSE]

\* (mutation) a failure to write the temp files escapes getTreeItem
treeItemAfterWrites_Throwing(node, failed) ==
  IF failed THEN None ELSE Some(filechangeTreeItemOf(node))

\* what getTreeItem returns once the writes are over, failed or not
treeItemAfterWrites(node, failed) == Some(filechangeTreeItemOf(node))

\* getChildren(elem) for a Patch.  fetchFails: httpd answers the diff with
\* an error; placeholderFails: mkdir or writeFile of the empty file rejects.
getChildrenOfPatch(fetchFails, placeholderFails) ==
  /\ IF fetchFails
       THEN /\ filechangeNodes' =
                 Some([message |-> Some("Patch details could not be resolved due to an error!"),
                       nodes |-> <<>>, logged |-> FALSE])
            /\ ~placeholderFails
            /\ UNCHANGED tempFiles
       ELSE /\ tempFiles' = IF placeholderFails THEN tempFiles
                            ELSE tempFiles \cup {emptyFileLocation}
            /\ filechangeNodes' =
                 Some([message |-> None, nodes |-> filechangeNodesOf(diffResponse),
                       logged |-> placeholderFails])
  /\ filechangeTreeItem' = NoTreeItem
  /\ UNCHANGED <<elem, edgeRevisions, diffResponse>>
  /\ rootChildren' = NoRootChildren
  /\ UNCHANGED listed
  /\ UNCHANGED <<storeVars, authVars>>

\* getTreeItem(node) for node i of the list getChildren returned.  Of the
\* files it has to write, `written` are those whose mkdir and writeFile
\* went through; any other one rejected.
getTreeItemOfFilechange(i, written) ==
  /\ IsDefined(filechangeNodes)
  /\ i \in 1..Len(Val(filechangeNodes).nodes)
  /\ LET node == Val(filechangeNodes).nodes[i]
         failed == written # versionFileLocations(node)
     IN /\ written \subseteq versionFileLocations(node)
        /\ tempFiles' = tempFiles \cup written
        /\ filechangeTreeItem' = [called |-> TRUE, node |-> i,
                                  item |-> treeItemAfterWrites(node, failed),
                                  logged |-> failed]
  /\ UNCHANGED <<elem, edgeRevisions, diffResponse, filechangeNodes>>
  /\ rootChildren' = NoRootChildren
  /\ UNCHANGED listed
  /\ UNCHANGED <<storeVars, authVars>>

\* -------------------------------------------------------- authentication
\* the DID of the identity stored in the node's home
Did == "did:key:z6Mk"

\* the passphrases an identity's key is protected with
Passphrases == <<"p1", "p2", "p3">>

PassphraseSet == {Passphrases[i] : i \in 1..Len(Passphrases)}

\* what the input box can hold once trimmed; it opens empty
Inputs == {""} \cup PassphraseSet

\* exec(`RAD_PASSPHRASE=${given} rad auth`) for a stored identity: the key
\* is unlocked and added to the ssh-agent when `given` is its passphrase
radAuth(pass, given) == given = pass

\* no call of authenticate is running
IdleAuthCall ==
  [pc |-> "idle", minimizeUserNotifications |-> FALSE, radicleId |-> None,
   input |-> "", shownErrorMessage |-> FALSE, shownInputBox |-> FALSE]

\* the step just taken returned from no call of authenticate
NothingAuthenticated ==
  [returned |-> FALSE, ret |-> FALSE, site |-> "none",
   minimizeUserNotifications |-> FALSE,
   shownErrorMessage |-> FALSE, shownInputBox |-> FALSE]

\* the call returns ret from the given line
authReturn(call, site, ret) ==
  [returned |-> TRUE, ret |-> ret, site |-> site,
   minimizeUserNotifications |-> call.minimizeUserNotifications,
   shownErrorMessage |-> call.shownErrorMessage,
   shownInputBox |-> call.shownInputBox]

\* (mutation) the options are not consulted before the user is notified
notifyEntry_IgnoringMinimize(minimizeUserNotifications) == "showErrorMessage"

\* if (options.minimizeUserNotifications) return false
notifyEntry(minimizeUserNotifications) ==
  IF minimizeUserNotifications THEN "return83" ELSE "showErrorMessage"

\* (mutation) the key unlocked to validate the input stays in the ssh-agent
validateInput_KeepsUnlocked(id, pass, input, wasAuthed) ==
  IF ~IsDefined(id) THEN [valid |-> TRUE, authed |-> wasAuthed]
  ELSE IF ~radAuth(pass, input) THEN [valid |-> FALSE, authed |-> wasAuthed]
  ELSE [valid |-> TRUE, authed |-> TRUE]

\* validateInput of the input box: with no identity every input passes;
\* else the input passes when rad auth accepts it, and the key this
\* unlocked is removed again with ssh-add -D.  `authed` is the state of the
\* key afterwards.
validateInput(id, pass, input, wasAuthed) ==
  IF ~IsDefined(id) THEN [valid |-> TRUE, authed |-> wasAuthed]
  ELSE IF ~radAuth(pass, input) THEN [valid |-> FALSE, authed |-> wasAuthed]
  ELSE [valid |-> TRUE, authed |-> FALSE]

\* authenticate from `if (options.minimizeUserNotifications)` to its next
\* await or return
notifyOrReturn(call) ==
  IF notifyEntry(call.minimizeUserNotifications) = "return83"
    THEN /\ acall' = IdleAuthCall
         /\ authResult' = authReturn(call, "return83", FALSE)
    ELSE /\ acall' = [call EXCEPT !.pc = "awaitErrorMessage", !.shownErrorMessage = TRUE]
         /\ authResult' = NothingAuthenticated

\* authenticate(options) up to its first await or return
authenticateCall(minimizeUserNotifications) ==
  /\ acall.pc = "idle"
  /\ LET call == [IdleAuthCall EXCEPT
                    !.minimizeUserNotifications = minimizeUserNotifications,
                    !.radicleId = radicleId]
     IN IF authed
          THEN /\ acall' = IdleAuthCall
               /\ authResult' = authReturn(call, "return56", TRUE)
        ELSE IF IsDefined(radicleId)
          THEN /\ acall' = [call EXCEPT !.pc = "awaitSecretsGet"]
               /\ authResult' = NothingAuthenticated
        ELSE notifyOrReturn(call)
  /\ UNCHANGED <<radicleId, passphrase, authed, secrets>>
  /\ UNCHANGED <<storeVars, treeVars>>

\* (mutation) a stored passphrase that fails stays in Secret Storage
secretsGot_KeepsStalePass ==
  /\ acall.pc = "awaitSecretsGet"
  /\ IF IsDefined(secrets)
       THEN IF radAuth(passphrase, Val(secrets))
              THEN /\ authed' = TRUE
                   /\ acall' = IdleAuthCall
                   /\ authResult' = authReturn(acall, "return71", TRUE)
                   /\ UNCHANGED secrets
              ELSE /\ secrets' = secrets
                   /\ acall' = [acall EXCEPT !.pc = "awaitSecretsDelete"]
                   /\ authResult' = NothingAuthenticated
                   /\ UNCHANGED authed
       ELSE /\ notifyOrReturn(acall)
            /\ UNCHANGED <<authed, secrets>>
  /\ UNCHANGED <<radicleId, passphrase>>
  /\ UNCHANGED <<storeVars, treeVars>>

\* authenticate resumes with the stored passphrase: the automatic attempt
secretsGot ==
  /\ acall.pc = "awaitSecretsGet"
  /\ IF IsDefined(secrets)
       THEN IF radAuth(passphrase, Val(secrets))
              THEN /\ authed' = TRUE
                   /\ acall' = IdleAuthCall
                   /\ authResult' = authReturn(acall, "return71", TRUE)
                   /\ UNCHANGED secrets
              ELSE /\ secrets' = None
                   /\ acall' = [acall EXCEPT !.pc = "awaitSecretsDelete"]
                   /\ authResult' = NothingAuthenticated
                   /\ UNCHANGED authed
       ELSE /\ notifyOrReturn(acall)
            /\ UNCHANGED <<authed, secrets>>
  /\ UNCHANGED <<radicleId, passphrase>>
  /\ UNCHANGED <<storeVars, treeVars>>

\* authenticate resumes after `await secrets.delete(radicleId)`
secretsDeleted ==
  /\ acall.pc = "awaitSecretsDelete"
  /\ notifyOrReturn(acall)
  /\ UNCHANGED <<radicleId, passphrase, authed, secrets>>
  /\ UNCHANGED <<storeVars, treeVars>>

\* the user answers the error message: with its button, or by dismissing it
userSelects(userSelection) ==
  /\ acall.pc = "awaitErrorMessage"
  /\ IF userSelection # "Authenticate"
       THEN /\ acall' = IdleAuthCall
            /\ authResult' = authReturn(acall, "return91", FALSE)
       ELSE /\ acall' = [acall EXCEPT !.pc = "awaitInputBox", !.shownInputBox = TRUE]
            /\ authResult' = NothingAuthenticated
  /\ UNCHANGED <<radicleId, passphrase, authed, secrets>>
  /\ UNCHANGED <<storeVars, treeVars>>

\* the user changes the content of the input box and validateInput runs
userTypes(input) ==
  /\ acall.pc = "awaitInputBox"
  /\ input # acall.input
  /\ acall' = [acall EXCEPT !.input = input]
  /\ authed' = validateInput(acall.radicleId, passphrase, input, authed).authed
  /\ authResult' = NothingAuthenticated
  /\ UNCHANGED <<radicleId, passphrase, secrets>>
  /\ UNCHANGED <<storeVars, treeVars>>

\* the user leaves the input box with Escape: showInputBox gives undefined
userAborts ==
  /\ acall.pc = "awaitInputBox"
  /\ acall' = IdleAuthCall
  /\ authResult' = authReturn(acall, "return129", FALSE)
  /\ UNCHANGED <<radicleId, passphrase, authed, secrets>>
  /\ UNCHANGED <<storeVars, treeVars>>

\* The user accepts the input, which the box lets through when
\* validateInput passes it, and authenticate runs to its end with the
\* typed passphrase.  created: with no identity stored, whether rad auth
\* manages to create one.
userAccepts(created) ==
  /\ acall.pc = "awaitInputBox"
  /\ validateInput(acall.radicleId, passphrase, acall.input, authed).valid
  /\ IsDefined(acall.radicleId) => created
  /\ LET typedInRadPass == acall.input
         didAuth == IF IsDefined(acall.radicleId) THEN radAuth(passphrase, typedInRadPass)
                    ELSE created
     IN IF ~didAuth
          THEN /\ authResult' = authReturn(acall, "return135", FALSE)
               /\ authed' = validateInput(acall.radicleId, passphrase, acall.input, authed).authed
               /\ UNCHANGED <<radicleId, passphrase, secrets>>
          ELSE /\ authed' = TRUE
               /\ radicleId' = Some(Did)
               /\ passphrase' = IF IsDefined(acall.radicleId) THEN passphrase
                                ELSE typedInRadPass
               /\ secrets' = Some(typedInRadPass)
               /\ authResult' = authReturn(acall, "return144", TRUE)
  /\ acall' = IdleAuthCall
  /\ UNCHANGED <<storeVars, treeVars>>

\* the key leaves the ssh-agent: the agent is restarted, or the user locks
\* the identity from a terminal
identityLocked ==
  /\ authed
  /\ authed' = FALSE
  /\ authResult' = NothingAuthenticated
  /\ UNCHANGED <<radicleId, passphrase, secrets, acall>>
  /\ UNCHANGED <<storeVars, treeVars>>

\* the user gives the identity's key another passphrase from a terminal
passphraseChanged(pass) ==
  /\ IsDefined(radicleId)
  /\ pass # passphrase
  /\ passphrase' = pass
  /\ authResult' = NothingAuthenticated
  /\ UNCHANGED <<radicleId, authed, secrets, acall>>
  /\ UNCHANGED <<storeVars, treeVars>>

\* ------------------------------------------------------------------ Init
\* A running call of initStoreIfNeeded / fetchAllPatches: pc is the await
\* it is suspended at, req the promise it awaits, nowTs its timestamp,
\* tsBefore the store's lastFetchedTs it found on entry.
IdleFetchCall == [pc |-> "idle", req |-> 0, nowTs |-> None, tsBefore |-> None]

\* A running call of refetchPatch: rid and resp are the adapter's answers
\* (rejected: the awaited promise rejects instead), pending a wire request
\* the node has not answered yet.
IdleRefetchCall ==
  [pc |-> "idle", patchId |-> PatchIds[1], rid |-> EmptyObject, nowTs |-> None,
   pending |-> FALSE, rejected |-> FALSE, resp |-> EmptyObject]

\* the step just taken returned from no call
NothingReturned == [site |-> "none", ret |-> "none"]

NothingRefetched ==
  [site |-> "none", patchId |-> PatchIds[1], how |-> "none", ret |-> EmptyObject]

\* the step just taken called findPatchById from outside the store not at all
NothingFound == [called |-> FALSE, arg |-> <<>>, result |-> None]

\* validate() has not been called yet
NothingValidated == [called |-> FALSE, usable |-> FALSE, ret |-> FALSE]

\* the tree before its view is opened
TreeIdle ==
  /\ elem = InitialElem
  /\ edgeRevisions = None
  /\ diffResponse = EmptyDiff
  /\ filechangeNodes = None
  /\ tempFiles = {}
  /\ filechangeTreeItem = NoTreeItem
  /\ rootChildren = NoRootChildren
  /\ listed = NothingListed

\* the store and the adapters after construction
StoreIdle ==
  /\ useNodeApi \in BOOLEAN
  /\ nodeConnection = "none"
  /\ remote = [id \in IdSet |-> [status |-> IF id = PatchIds[1] THEN "draft" ELSE "open",
                                 ver |-> 0]]
  /\ clock = 0
  /\ patches = None
  /\ lastFetchedTs = None
  /\ inProgressRequest = 0
  /\ req = [c \in FetchCalls |-> NoRequest]
  /\ fcall = [c \in FetchCalls |-> IdleFetchCall]
  /\ rcall = [k \in RefetchCalls |-> IdleRefetchCall]
  /\ returned = NothingReturned
  /\ refetched = NothingRefetched
  /\ currentBranch = None
  /\ checkedOutPatch = None
  /\ found = NothingFound
  /\ validated = NothingValidated

\* an identity with its key locked, no passphrase stored, no call running
AuthIdle ==
  /\ radicleId = Some(Did)
  /\ passphrase = Passphrases[1]
  /\ authed = FALSE
  /\ secrets = None
  /\ acall = IdleAuthCall
  /\ authResult = NothingAuthenticated

Init ==
  /\ StoreIdle
  /\ TreeIdle
  /\ AuthIdle

\* ----------------------------------------------------------- environment
\* somebody acts on a patch on the node: its data changes and it moves on
\* to its next status
RemoteChange(id) ==
  /\ RemoteChanges(remote) < MaxRemoteChanges
  /\ remote' = [remote EXCEPT ![id] = [status |-> NextStatus(@.status), ver |-> @.ver + 1]]
  /\ req' = [r \in FetchCalls |->
               IF req[r].state = "pending" /\ req[r].conn = "classic"
                 THEN [req[r] EXCEPT !.seen = Append(@, remote')]
                 ELSE req[r]]
  /\ UNCHANGED <<useNodeApi, nodeConnection, clock, patches, lastFetchedTs,
                 inProgressRequest, fcall, rcall>>
  /\ returned' = NothingReturned
  /\ refetched' = NothingRefetched
  /\ found' = NothingFound
  /\ UNCHANGED uxVars
  /\ UNCHANGED <<currentBranch, checkedOutPatch>>

\* ------------------------------------------------------- fetchAllPatches
\* a settled promise after its first reaction ran, the issuing call having
\* returned ret; promise and responses are garbage once no reaction is left
AfterReaction(q, ret) ==
  IF Len(q.waiters) = 1 THEN NoRequest
  ELSE [q EXCEPT !.waiters = Tail(@), !.issuerRet = ret]

Suspended(call) == call.pc \in {"awaitOwn", "awaitShared"}

\* a slot for a new call: no call runs in it, no reaction waits on its promise
FreeFetchSlot(c) == fcall[c].pc = "idle" /\ req[c].state = "none"

\* fetchAllPatches() up to its first await (or its early return); memo is
\* what memoizedGetCurrentProjectId() returns, throws whether the native
\* binding's patches(rid) raises; Date.now() never runs backwards
fetchAllPatchesCall(c, memo, throws) ==
  LET entry == fetchEntry(inProgressRequest, memo) IN
  IF entry = "await" THEN
    /\ fcall' = [fcall EXCEPT ![c] = [IdleFetchCall EXCEPT !.pc = "awaitShared",
                                                           !.req = inProgressRequest]]
    /\ req' = [req EXCEPT ![inProgressRequest].waiters = registerReaction(@, c)]
    /\ UNCHANGED <<nodeConnection, clock, patches, lastFetchedTs, inProgressRequest>>
    /\ returned' = NothingReturned
  ELSE IF entry = "noRid" THEN
    /\ returned' = [site |-> "return89", ret |-> "false"]
    /\ UNCHANGED <<nodeConnection, clock, patches, lastFetchedTs, inProgressRequest,
                   req, fcall>>
  ELSE
    \E now \in clock..MaxClock :
      LET conn == getNodeConnection(nodeConnection, useNodeApi) IN
      /\ clock' = now
      /\ lastFetchedTs' = Some(now)
      /\ nodeConnection' = conn
      /\ req' = [req EXCEPT ![c] = IF conn = "napi"
                                     THEN NapiFetchAllPatches(c, remote, throws)
                                     ELSE ClassicFetchAllPatches(c, remote)]
      /\ inProgressRequest' = c
      /\ fcall' = [fcall EXCEPT ![c] = [pc |-> "awaitOwn", req |-> c,
                                         nowTs |-> Some(now),
                                         tsBefore |-> lastFetchedTs]]
      /\ UNCHANGED <<patches>>
      /\ returned' = NothingReturned

\* initStoreIfNeeded(): !patches.value && (await fetchAllPatches())
initStoreIfNeeded(c, memo, throws) ==
  /\ FreeFetchSlot(c)
  /\ \A d \in 1..(c - 1) : ~FreeFetchSlot(d)
  /\ IF initStoreEntry(patches) = "false"
       THEN /\ returned' = [site |-> "return115", ret |-> "false"]
            /\ UNCHANGED <<nodeConnection, clock, patches, lastFetchedTs,
                           inProgressRequest, req, fcall>>
       ELSE fetchAllPatchesCall(c, memo, throws)
  /\ UNCHANGED <<useNodeApi, remote, rcall>>
  /\ refetched' = NothingRefetched
  /\ found' = NothingFound
  /\ UNCHANGED uxVars
  /\ UNCHANGED <<currentBranch, checkedOutPatch>>

\* the backend promise of request r settles and its .finally callback
\* runs: inProgressRequest = undefined.  The event loop runs the pending
\* reactions of the promises settled earlier before it settles another.  The wire adapter's promise
\* fulfils with four Results, each an error or the answer read from one of
\* the node states seen, or rejects when one of the four requests rejects;
\* the binding adapter's promise settles with what the binding call
\* produced.
RequestSettles(r, rejects) ==
  /\ req[r].state = "pending"
  /\ \A q \in FetchCalls : req[q].state \in {"none", "pending"}
  /\ \E pick \in [1..Len(Statuses) -> 0..Len(req[r].seen)] :
       req' = [req EXCEPT ![r] =
         IF req[r].conn = "napi"
           THEN [@ EXCEPT !.state = IF req[r].rejected THEN "rejected" ELSE "fulfilled"]
         ELSE IF rejects
           THEN [@ EXCEPT !.state = "rejected", !.rejected = TRUE, !.seen = <<>>]
         ELSE [@ EXCEPT !.state = "fulfilled", !.seen = <<>>,
                        !.results = ClassicResponses(req[r].seen, pick)]]
  /\ inProgressRequest' = handleAfterSettle(inProgressRequest, req'[r].state = "rejected")
  /\ UNCHANGED <<useNodeApi, nodeConnection, remote, clock, patches, lastFetchedTs,
                 fcall, rcall>>
  /\ returned' = NothingReturned
  /\ refetched' = NothingRefetched
  /\ found' = NothingFound
  /\ UNCHANGED uxVars
  /\ UNCHANGED <<currentBranch, checkedOutPatch>>

\* the call that issued request c resumes after `await promisedResponses`
IssuerResumes(c) ==
  /\ fcall[c].pc = "awaitOwn"
  /\ req[c].state \in {"fulfilled", "rejected"}
  /\ req[c].waiters # <<>> /\ Head(req[c].waiters) = c
  /\ fcall' = [fcall EXCEPT ![c] = IdleFetchCall]
  /\ IF req[c].state = "rejected"
       THEN /\ returned' = [site |-> "threw", ret |-> "throws"]
            /\ req' = [req EXCEPT ![c] = AfterReaction(@, "throws")]
            /\ UNCHANGED patches
       ELSE LET out == applyResponses(req[c].results, Val(fcall[c].nowTs), patches) IN
            /\ patches' = out.patches
            /\ returned' = [site |-> out.pc, ret |-> out.ret]
            /\ req' = [req EXCEPT ![c] = AfterReaction(@, out.ret)]
  /\ UNCHANGED <<useNodeApi, nodeConnection, remote, clock, lastFetchedTs,
                 inProgressRequest, rcall>>
  /\ refetched' = NothingRefetched
  /\ found' = NothingFound
  /\ UNCHANGED uxVars
  /\ checkedOutPatch' = checkedOutPatchValue(patches', currentBranch)
  /\ UNCHANGED currentBranch

\* a call that found a request in flight resumes after
\* `await inProgressRequest`
CoalescedResumes(c) ==
  /\ fcall[c].pc = "awaitShared"
  /\ LET r == fcall[c].req IN
       /\ req[r].state \in {"fulfilled", "rejected"}
       /\ req[r].waiters # <<>> /\ Head(req[r].waiters) = c
       /\ req' = [req EXCEPT ![r] = AfterReaction(@, @.issuerRet)]
       /\ returned' = IF req[r].state = "rejected"
                        THEN [site |-> "threw", ret |-> "throws"]
                        ELSE [site |-> "return84", ret |-> coalescedReturn(req[r].results)]
  /\ fcall' = [fcall EXCEPT ![c] = IdleFetchCall]
  /\ UNCHANGED <<useNodeApi, nodeConnection, remote, clock, patches, lastFetchedTs,
                 inProgressRequest, rcall>>
  /\ refetched' = NothingRefetched
  /\ found' = NothingFound
  /\ UNCHANGED uxVars
  /\ UNCHANGED <<currentBranch, checkedOutPatch>>

\* (mutation) the computed is not evaluated again after the reset
resetAllPatches_StaleComputed ==
  /\ patches' = None
  /\ returned' = NothingReturned
  /\ refetched' = NothingRefetched
  /\ found' = NothingFound
  /\ UNCHANGED uxVars
  /\ UNCHANGED <<useNodeApi, nodeConnection, remote, clock, lastFetchedTs,
                 inProgressRequest, req, fcall, rcall, currentBranch, checkedOutPatch>>

\* resetAllPatches()
resetAllPatches ==
  /\ patches' = None
  /\ UNCHANGED <<useNodeApi, nodeConnection, remote, clock, lastFetchedTs,
                 inProgressRequest, req, fcall, rcall>>
  /\ returned' = NothingReturned
  /\ refetched' = NothingRefetched
  /\ found' = NothingFound
  /\ UNCHANGED uxVars
  /\ checkedOutPatch' = checkedOutPatchValue(patches', currentBranch)
  /\ UNCHANGED currentBranch

\* ---------------------------------------------------------- refetchPatch
\* refetchPatch(patchId) returns ret from the given line (how: the branch
\* of the merge it took)
Refetched(site, patchId, how, ret) ==
  [site |-> site, patchId |-> patchId, how |-> how, ret |-> ret]

\* which branch of the merge takes the fetched patch
mergeBranch(ps, fetchedPatch) ==
  IF findPatchIndex(ps, fetchedPatch.id) # 0 THEN "assigned" ELSE "pushed"

\* refetchPatch(patchId) up to `await getCurrentProjectId()`.  The wire
\* adapter answers from memoizedGetCurrentProjectId(); the binding adapter
\* has no error branch: it dereferences workspaceFolders![0]!, which
\* throws when no project folder can be determined.
refetchPatchCall(k, patchId, memo) ==
  /\ rcall[k].pc = "idle"
  /\ \A j \in 1..(k - 1) : rcall[j].pc # "idle"
  /\ LET conn == getNodeConnection(nodeConnection, useNodeApi) IN
       /\ nodeConnection' = conn
       /\ rcall' = [rcall EXCEPT ![k] =
            [IdleRefetchCall EXCEPT
               !.pc = "awaitRid", !.patchId = patchId,
               !.rejected = (conn = "napi" /\ ~IsDefined(memo)),
               !.rid = IF conn = "napi"
                         THEN (IF IsDefined(memo) THEN Data(Val(memo)) ELSE EmptyObject)
                         ELSE ClassicGetCurrentProjectId(memo)]]
  /\ UNCHANGED <<useNodeApi, remote, clock, patches, lastFetchedTs,
                 inProgressRequest, req, fcall>>
  /\ returned' = NothingReturned
  /\ refetched' = NothingRefetched
  /\ found' = NothingFound
  /\ UNCHANGED uxVars
  /\ UNCHANGED <<currentBranch, checkedOutPatch>>

\* refetchPatch resumes with the project id: the early return, or nowTs
\* and the fetchPatch request.  The binding adapter calls patch(rid, id)
\* synchronously (throws: the binding raises); the wire adapter's request
\* stays pending until the node answers.
refetchPatchGotRid(k, throws) ==
  /\ rcall[k].pc = "awaitRid"
  /\ IF rcall[k].rejected
       THEN /\ rcall' = [rcall EXCEPT ![k] = IdleRefetchCall]
            /\ refetched' = Refetched("threw", rcall[k].patchId, "none", EmptyObject)
            /\ UNCHANGED clock
       ELSE IF ~HasData(rcall[k].rid)
       THEN /\ rcall' = [rcall EXCEPT ![k] = IdleRefetchCall]
            /\ refetched' = Refetched("return48", rcall[k].patchId, "none",
                                      Failure("Failed resolving RID"))
            /\ UNCHANGED clock
       ELSE \E now \in clock..MaxClock :
            /\ clock' = now
            /\ rcall' = [rcall EXCEPT ![k] =
                 IF nodeConnection = "napi"
                   THEN [@ EXCEPT !.pc = "awaitPatch", !.nowTs = Some(now),
                                  !.rejected = throws,
                                  !.resp = IF throws THEN EmptyObject
                                           ELSE Data(FetchedPatch(remote, rcall[k].patchId))]
                   ELSE [@ EXCEPT !.pc = "awaitPatch", !.nowTs = Some(now),
                                  !.pending = TRUE]]
            /\ refetched' = NothingRefetched
  /\ UNCHANGED <<useNodeApi, nodeConnection, remote, patches, lastFetchedTs,
                 inProgressRequest, req, fcall>>
  /\ returned' = NothingReturned
  /\ found' = NothingFound
  /\ UNCHANGED uxVars
  /\ UNCHANGED <<currentBranch, checkedOutPatch>>

\* the node answers GET /projects/{rid}/patches/{id}; the event loop
\* delivers one response at a time, and the call it resumes runs to its end
\* before the next response is delivered
ServePatch(k, outcome) ==
  /\ rcall[k].pc = "awaitPatch"
  /\ rcall[k].pending
  /\ \A j \in RefetchCalls : rcall[j].pc = "awaitPatch" => rcall[j].pending
  /\ rcall' = [rcall EXCEPT ![k] =
       [@ EXCEPT !.pending = FALSE,
                 !.rejected = (outcome = "reject"),
                 !.resp = IF outcome = "data"
                            THEN Data(FetchedPatch(remote, rcall[k].patchId))
                          ELSE IF outcome = "error" THEN Failure("httpd error")
                          ELSE EmptyObject]]
  /\ UNCHANGED <<useNodeApi, nodeConnection, remote, clock, patches, lastFetchedTs,
                 inProgressRequest, req, fcall>>
  /\ returned' = NothingReturned
  /\ refetched' = NothingRefetched
  /\ found' = NothingFound
  /\ UNCHANGED uxVars
  /\ UNCHANGED <<currentBranch, checkedOutPatch>>

\* refetchPatch resumes with the response of fetchPatch
refetchPatchGotPatch(k) ==
  /\ rcall[k].pc = "awaitPatch"
  /\ ~rcall[k].pending
  /\ rcall' = [rcall EXCEPT ![k] = IdleRefetchCall]
  /\ IF rcall[k].rejected
       THEN /\ refetched' = Refetched("threw", rcall[k].patchId, "none", EmptyObject)
            /\ UNCHANGED patches
       ELSE IF HasError(rcall[k].resp)
       THEN /\ refetched' = Refetched("return54", rcall[k].patchId, "none",
                                      Failure(Val(rcall[k].resp.error)))
            /\ UNCHANGED patches
       ELSE /\ patches' = mergeFetchedPatch(patches, Val(rcall[k].resp.data),
                                            Val(rcall[k].nowTs))
            /\ refetched' = Refetched("return69", rcall[k].patchId,
                                      mergeBranch(patches, Val(rcall[k].resp.data)),
                                      EmptyObject)
  /\ UNCHANGED <<useNodeApi, nodeConnection, remote, clock, lastFetchedTs,
                 inProgressRequest, req, fcall>>
  /\ returned' = NothingReturned
  /\ found' = NothingFound
  /\ UNCHANGED uxVars
  /\ checkedOutPatch' = checkedOutPatchValue(patches', currentBranch)
  /\ UNCHANGED currentBranch

\* ------------------------------------------------ reads, branch, settings
\* the branch names git reports: none, one with no patch/ segment, patch/
\* followed by no hex character, and patch/ followed by hex characters
Branches ==
  {None,
   Some(<<"m", "a", "i", "n">>),
   Some(PatchSlash),
   Some(PatchSlash \o <<"b">>),
   Some(PatchSlash \o <<"a", "b">>)}

\* the arguments findPatchById is called with: whole ids, parts of ids, and
\* a string no id contains
PartialIds == IdSet \cup {<<"a">>, <<"b">>, <<"c">>}

\* useGitStore().currentBranch changes; the computed checkedOutPatch
\* depends on it and is evaluated again
BranchChange(branch) ==
  /\ branch # currentBranch
  /\ currentBranch' = branch
  /\ checkedOutPatch' = checkedOutPatchValue(patches, branch)
  /\ returned' = NothingReturned
  /\ refetched' = NothingRefetched
  /\ found' = NothingFound
  /\ UNCHANGED uxVars
  /\ UNCHANGED <<useNodeApi, nodeConnection, remote, clock, patches, lastFetchedTs,
                 inProgressRequest, req, fcall, rcall>>

\* a consumer of the store calls findPatchById(partialOrWholeId)
findPatchByIdCall(partialOrWholeId) ==
  /\ found' = [called |-> TRUE, arg |-> partialOrWholeId,
               result |-> findPatchById(patches, partialOrWholeId)]
  /\ UNCHANGED uxVars
  /\ returned' = NothingReturned
  /\ refetched' = NothingRefetched
  /\ UNCHANGED <<useNodeApi, nodeConnection, remote, clock, patches, lastFetchedTs,
                 inProgressRequest, req, fcall, rcall, currentBranch, checkedOutPatch>>

\* the user changes the setting radicle.advanced.useNodeApi
ConfigChange(flag) ==
  /\ flag # useNodeApi
  /\ useNodeApi' = flag
  /\ returned' = NothingReturned
  /\ refetched' = NothingRefetched
  /\ found' = NothingFound
  /\ UNCHANGED uxVars
  /\ UNCHANGED <<nodeConnection, remote, clock, patches, lastFetchedTs,
                 inProgressRequest, req, fcall, rcall, currentBranch, checkedOutPatch>>

\* -------------------------------------------------------------- validate
\* ClassicNode.validate: what validateHttpdConnection(options) answers,
\* true when the httpd answers and false on any failure
ClassicValidate(usable) == usable

\* NAPINode.validate: true, whatever the options and the state of the binding
NapiValidate(usable) == TRUE

\* getNodeConnection().validate(options); usable: whether the backend of
\* the adapter can serve requests at this moment
validateCall(minimizeUserNotifications, usable) ==
  LET conn == getNodeConnection(nodeConnection, useNodeApi) IN
  /\ nodeConnection' = conn
  /\ validated' = [called |-> TRUE, usable |-> usable,
                   ret |-> IF conn = "napi" THEN NapiValidate(usable)
                           ELSE ClassicValidate(usable)]
  /\ returned' = NothingReturned
  /\ refetched' = NothingRefetched
  /\ found' = NothingFound
  /\ UNCHANGED <<useNodeApi, remote, clock, patches, lastFetchedTs, inProgressRequest,
                 req, fcall, rcall, currentBranch, checkedOutPatch>>
  /\ UNCHANGED <<treeVars, authVars>>

\* ------------------------------------------------------------------ Next
Outcomes == {"data", "error", "reject"}

\* the full fetch alone
NextFetch ==
  \/ \E id \in IdSet : RemoteChange(id)
  \/ \E c \in FetchCalls, memo \in RidChoices, throws \in BOOLEAN :
        initStoreIfNeeded(c, memo, throws)
  \/ \E r \in FetchCalls, rejects \in BOOLEAN : RequestSettles(r, rejects)
  \/ \E c \in FetchCalls : IssuerResumes(c)
  \/ \E c \in FetchCalls : CoalescedResumes(c)
  \/ resetAllPatches

SpecFetch == Init /\ [][NextFetch]_vars

\* the single-patch refresh alone
NextRefetch ==
  \/ \E id \in IdSet : RemoteChange(id)
  \/ resetAllPatches
  \/ \E k \in RefetchCalls, id \in IdSet, memo \in RidChoices : refetchPatchCall(k, id, memo)
  \/ \E k \in RefetchCalls, throws \in BOOLEAN : refetchPatchGotRid(k, throws)
  \/ \E k \in RefetchCalls, o \in Outcomes : ServePatch(k, o)
  \/ \E k \in RefetchCalls : refetchPatchGotPatch(k)

SpecRefetch == Init /\ [][NextRefetch]_vars

\* the cache filled patch by patch, its readers and the checked-out branch
NextStore ==
  \/ resetAllPatches
  \/ \E k \in RefetchCalls, id \in IdSet, memo \in RidChoices : refetchPatchCall(k, id, memo)
  \/ \E k \in RefetchCalls, throws \in BOOLEAN : refetchPatchGotRid(k, throws)
  \/ \E k \in RefetchCalls, o \in Outcomes : ServePatch(k, o)
  \/ \E k \in RefetchCalls : refetchPatchGotPatch(k)
  \/ \E branch \in Branches : BranchChange(branch)
  \/ \E partialOrWholeId \in PartialIds : findPatchByIdCall(partialOrWholeId)

SpecStore == Init /\ [][NextStore]_vars

\* the adapter singleton under changes of the setting
NextConfig ==
  \/ \E flag \in BOOLEAN : ConfigChange(flag)
  \/ \E minimizeUserNotifications \in BOOLEAN, usable \in BOOLEAN :
        validateCall(minimizeUserNotifications, usable)
  \/ resetAllPatches
  \/ \E k \in RefetchCalls, id \in IdSet, memo \in RidChoices : refetchPatchCall(k, id, memo)
  \/ \E k \in RefetchCalls, throws \in BOOLEAN : refetchPatchGotRid(k, throws)
  \/ \E k \in RefetchCalls, o \in Outcomes : ServePatch(k, o)
  \/ \E k \in RefetchCalls : refetchPatchGotPatch(k)

SpecConfig == Init /\ [][NextConfig]_vars

\* the edge revisions of one patch under every storage order
InitRevisions ==
  /\ StoreIdle
  /\ useNodeApi = FALSE
  /\ TreeIdle
  /\ AuthIdle

NextRevisions ==
  \/ \E timestamp \in RevisionTimestamps, at \in 1..MaxRevisions :
        RevisionPushed(timestamp, at)
  \/ getTreeItemOfPatch

SpecRevisions == InitRevisions /\ [][NextRevisions]_vars

\* the changed files of one patch: its diff, its nodes, their items
InitDiff ==
  /\ StoreIdle
  /\ useNodeApi = FALSE
  /\ elem = InitialElem
  /\ edgeRevisions = None
  /\ diffResponse \in DiffResponses
  /\ filechangeNodes = None
  /\ tempFiles = {}
  /\ filechangeTreeItem = NoTreeItem
  /\ rootChildren = NoRootChildren
  /\ listed = NothingListed
  /\ AuthIdle

\* the temp files a node may be asked for
AllVersionFileLocations ==
  {VersionFileLocation(commit, path) : commit \in {"base", "oid"}, path \in FilePathSet}

NextDiff ==
  \/ \E fetchFails \in BOOLEAN, placeholderFails \in BOOLEAN :
        getChildrenOfPatch(fetchFails, placeholderFails)
  \/ \E i \in 1..Len(FilePaths), written \in SUBSET AllVersionFileLocations :
        getTreeItemOfFilechange(i, written)

SpecDiff == InitDiff /\ [][NextDiff]_vars

\* The authentication of the identity.  The extension starts with or
\* without an identity in the node's home; the key of an identity may be in
\* the ssh-agent already, and Secret Storage may hold a passphrase from an
\* earlier session.
InitAuth ==
  /\ StoreIdle
  /\ useNodeApi = FALSE
  /\ TreeIdle
  /\ radicleId \in {None, Some(Did)}
  /\ passphrase = Passphrases[1]
  /\ authed \in {a \in BOOLEAN : a => IsDefined(radicleId)}
  /\ secrets \in {None} \cup {Some(pass) : pass \in {q \in PassphraseSet : IsDefined(radicleId)}}
  /\ acall = IdleAuthCall
  /\ authResult = NothingAuthenticated

NextAuth ==
  \/ \E minimizeUserNotifications \in BOOLEAN : authenticateCall(minimizeUserNotifications)
  \/ secretsGot
  \/ secretsDeleted
  \/ \E userSelection \in {"Authenticate", "undefined"} : userSelects(userSelection)
  \/ \E input \in Inputs : userTypes(input)
  \/ userAborts
  \/ \E created \in BOOLEAN : userAccepts(created)
  \/ identityLocked
  \/ \E pass \in PassphraseSet : passphraseChanged(pass)

SpecAuth == InitAuth /\ [][NextAuth]_vars

\* the full fetch and the calls that share one request, the cache never reset
NextCoalesce ==
  \/ \E id \in IdSet : RemoteChange(id)
  \/ \E c \in FetchCalls, memo \in RidChoices, throws \in BOOLEAN :
        initStoreIfNeeded(c, memo, throws)
  \/ \E r \in FetchCalls, rejects \in BOOLEAN : RequestSettles(r, rejects)
  \/ \E c \in FetchCalls : IssuerResumes(c)
  \/ \E c \in FetchCalls : CoalescedResumes(c)

SpecCoalesce == Init /\ [][NextCoalesce]_vars

\* a full fetch over the wire with refetches of single patches running
\* beside it; the project id resolves and the node answers every request
NextInterleave ==
  \/ \E id \in IdSet : RemoteChange(id)
  \/ \E c \in FetchCalls : initStoreIfNeeded(c, Some(Rid), FALSE)
  \/ \E r \in FetchCalls : RequestSettles(r, FALSE)
  \/ \E c \in FetchCalls : IssuerResumes(c)
  \/ \E c \in FetchCalls : CoalescedResumes(c)
  \/ \E k \in RefetchCalls, id \in IdSet : refetchPatchCall(k, id, Some(Rid))
  \/ \E k \in RefetchCalls : refetchPatchGotRid(k, FALSE)
  \/ \E k \in RefetchCalls : ServePatch(k, "data")
  \/ \E k \in RefetchCalls : refetchPatchGotPatch(k)

SpecInterleave == InitRevisions /\ [][NextInterleave]_vars

\* the root of the patch tree listed again and again, for every content of
\* the node and every pattern of failing requests
InitRoot ==
  /\ StoreIdle
  /\ useNodeApi = FALSE
  /\ elem = InitialElem
  /\ edgeRevisions = None
  /\ diffResponse = EmptyDiff
  /\ filechangeNodes = None
  /\ tempFiles = {}
  /\ filechangeTreeItem = NoTreeItem
  /\ rootChildren = NoRootChildren
  /\ listed \in [1..Len(ListedIds) -> ListedChoices]
  /\ AuthIdle

NextRoot ==
  \/ \E failed \in SUBSET StatusSet : getChildrenOfRoot(failed)

SpecRoot == InitRoot /\ [][NextRoot]_vars

\* ================================================================ claims
ListOf(ps) == IF IsDefined(ps) THEN Val(ps) ELSE <<>>

\* the backend requests that have not settled
InFlight == {r \in FetchCalls : req[r].state = "pending"}

\* call c enters fetchAllPatches in this step
EntersFetch(c) == fcall[c].pc = "idle" /\ fcall'[c].pc # "idle" /\ ~IsDefined(patches)

\* call c returns (or throws) in this step, having been suspended
Returns(c) == Suspended(fcall[c]) /\ ~Suspended(fcall'[c])

C2_SameOutcome ==
  [][\A c \in FetchCalls :
       (fcall[c].pc = "awaitShared" /\ Returns(c))
         => returned'.ret = req[fcall[c].req].issuerRet]_vars

\* C3: a call returns true only if every Result of the batch it waited on
\* carries data and no error.
C3_TrueOnlyIfBatchSucceeded ==
  [][\A c \in FetchCalls :
       (Returns(c) /\ returned'.ret = "true")
         => LET responses == req[fcall[c].req].results IN
            \A i \in 1..Len(responses) :
              HasData(responses[i]) /\ ~HasError(responses[i])]_vars

\* C4: when the issuing call resumes with a batch holding an error,
\* patches keeps its value; when every Result holds data, patches becomes
\* the concatenation of the data in status order, each element stamped
\* with the call's timestamp; and patches takes a defined value in no
\* other step of a fetch.
C4_AtomicBatchReplace ==
  [][/\ \A c \in FetchCalls :
          (fcall[c].pc = "awaitOwn" /\ Returns(c) /\ req[c].state = "fulfilled")
            => LET responses == req[c].results
                   fetched == Flatten([i \in 1..Len(responses) |->
                                         ListOf(responses[i].data)])
               IN IF \E i \in 1..Len(responses) : HasError(responses[i])
                    THEN patches' = patches /\ returned'.ret = "false"
                    ELSE /\ IsDefined(patches')
                         /\ Len(Val(patches')) = Len(fetched)
                         /\ \A j \in 1..Len(fetched) :
                              /\ PatchOf(Val(patches')[j]) = fetched[j]
                              /\ Val(patches')[j].lastFetchedTs = Val(fcall[c].nowTs)
                         /\ returned'.ret = "true"
     /\ (patches' # patches /\ IsDefined(patches'))
          => \E c \in FetchCalls :
               fcall[c].pc = "awaitOwn" /\ Returns(c) /\ returned'.site = "return111"]_vars

\* one batch has replaced the collection and a later one has just failed
C4_Witness ==
  /\ returned.site = "return101"
  /\ IsDefined(patches) /\ Len(Val(patches)) > 0

\* C5: a call that fails on an error Result leaves patches untouched and
\* lastFetchedTs at the value it had before the call.
C5_FailedFetchLeavesState ==
  [][\A c \in FetchCalls :
       (fcall[c].pc = "awaitOwn" /\ Returns(c) /\ returned'.site = "return101")
         => (patches' = patches /\ lastFetchedTs' = fcall[c].tsBefore)]_vars

\* C6: with no project id and no fetch in flight, fetchAllPatches()
\* returns false, sends no request, and leaves patches, lastFetchedTs and
\* the in-flight handle as they were.
C6_UnresolvedRidFailsWithoutEffect ==
  [][\A c \in FetchCalls, t \in BOOLEAN :
       (inProgressRequest = 0 /\ ~IsDefined(patches) /\ initStoreIfNeeded(c, None, t))
         => /\ returned' = [site |-> "return89", ret |-> "false"]
            /\ ~Suspended(fcall'[c])
            /\ UNCHANGED <<patches, lastFetchedTs, inProgressRequest, req>>]_vars

\* a call gave up for want of a project id
C6_Witness ==
  /\ returned = [site |-> "return89", ret |-> "false"]
  /\ inProgressRequest = 0 /\ ~IsDefined(patches) /\ ~IsDefined(lastFetchedTs)

\* the successful merge of a refetchPatch call happens in this step
Merges(k) ==
  /\ rcall[k].pc = "awaitPatch" /\ rcall'[k].pc = "idle"
  /\ refetched'.site = "return69"

\* the positions of the cache entries with the given id
Holding(ps, id) == {i \in 1..Len(ListOf(ps)) : ListOf(ps)[i].id = id}

First(S) == CHOOSE i \in S : \A j \in S : i <= j

\* C7: the merge overwrites the cache entry holding the fetched id in
\* place (same object, same position, same length, the other entries
\* untouched), and appends the fetched patch as last element when no
\* entry holds the id (to an empty collection when patches is undefined).
C7_MergeById ==
  [][\A k \in RefetchCalls :
       Merges(k)
         => LET f == Val(rcall[k].resp.data)
                old == ListOf(patches)
                new == ListOf(patches')
                hits == Holding(patches, f.id)
            IN /\ IsDefined(patches')
               /\ IF hits # {}
                    THEN /\ Len(new) = Len(old)
                         /\ new[First(hits)].ref = old[First(hits)].ref
                         /\ PatchOf(new[First(hits)]) = f
                         /\ new[First(hits)].lastFetchedTs = Val(rcall[k].nowTs)
                         /\ \A j \in 1..Len(old) : j # First(hits) => new[j] = old[j]
                    ELSE /\ Len(new) = Len(old) + 1
                         /\ SubSeq(new, 1, Len(old)) = old
                         /\ PatchOf(new[Len(new)]) = f
                         /\ new[Len(new)].lastFetchedTs = Val(rcall[k].nowTs)
                         /\ new[Len(new)].ref \notin RefsOf(old)]_vars

\* calls appended both patches and the latest call overwrote an entry in
\* place
C7_Witness ==
  /\ refetched.site = "return69" /\ refetched.how = "assigned"
  /\ Len(ListOf(patches)) = Len(PatchIds)

\* C8: no two entries of patches have the same id.
C8_NoDuplicateIds ==
  \A i, j \in 1..Len(ListOf(patches)) :
    i # j => ListOf(patches)[i].id # ListOf(patches)[j].id

\* the fetched patch equals, field by field, the entry the cache holds
\* for its id: the remote data is identical to what an earlier call got
RefetchesSameData(k) ==
  /\ Merges(k)
  /\ \E i \in 1..Len(ListOf(patches)) :
       PatchOf(ListOf(patches)[i]) = Val(rcall[k].resp.data)

\* C9 as stated: a refetchPatch that gets the data the cache already
\* holds leaves the cache equal to what it was.
C9_SecondRefetchLeavesCacheEqual ==
  [][\A k \in RefetchCalls : RefetchesSameData(k) => patches' = patches]_vars

\* C9 (amended): a refetchPatch that gets the data the cache already holds
\* leaves every entry's Patch fields, position and object identity as
\* they were; only lastFetchedTs of the entry with the fetched id changes,
\* to the timestamp of this call.
C9_MergeIdempotent ==
  [][\A k \in RefetchCalls :
       RefetchesSameData(k)
         => LET old == ListOf(patches)
                new == ListOf(patches')
                f == Val(rcall[k].resp.data)
            IN /\ IsDefined(patches')
               /\ Len(new) = Len(old)
               /\ \A j \in 1..Len(old) :
                    /\ PatchOf(new[j]) = PatchOf(old[j])
                    /\ new[j].ref = old[j].ref
                    /\ new[j].lastFetchedTs =
                         IF j = First(Holding(patches, f.id))
                           THEN Val(rcall[k].nowTs) ELSE old[j].lastFetchedTs]_vars

\* a call found the entry an earlier call for the same id had appended,
\* while the node's patches never changed
C9_Witness ==
  /\ refetched.site = "return69" /\ refetched.how = "assigned"
  /\ RemoteChanges(remote) = 0
  /\ \E i \in Holding(patches, refetched.patchId) :
       PatchOf(ListOf(patches)[i]) = FetchedPatch(remote, refetched.patchId)

\* C10: refetchPatch returns an error Result and leaves patches alone
\* when the project id cannot be resolved (and then sends no fetchPatch
\* request) and when fetchPatch returns an error.
C10_RefetchFailsWithErrorResult ==
  [][\A k \in RefetchCalls :
       /\ (/\ rcall[k].pc = "awaitRid" /\ rcall'[k].pc # "awaitRid"
            /\ (rcall[k].rejected \/ ~HasData(rcall[k].rid)))
             => /\ rcall'[k].pc = "idle"
                /\ refetched'.site # "threw" /\ HasError(refetched'.ret)
                /\ patches' = patches
       /\ (/\ rcall[k].pc = "awaitPatch" /\ rcall'[k].pc # "awaitPatch"
            /\ ~rcall[k].rejected /\ HasError(rcall[k].resp))
             => /\ rcall'[k].pc = "idle"
                /\ refetched'.site # "threw" /\ HasError(refetched'.ret)
                /\ patches' = patches]_vars

\* a Result with exactly one of data and error
ExactlyOne(r) == HasData(r) # HasError(r)

\* C11: every Result an adapter hands to the store (the project id, the
\* fetched patch, each element of the fetchAllPatches array) and every
\* value refetchPatch returns has exactly one of data and error set.
C11_ResultExclusivity ==
  /\ \A k \in RefetchCalls :
       /\ (rcall[k].pc = "awaitRid" /\ ~rcall[k].rejected) => ExactlyOne(rcall[k].rid)
       /\ (rcall[k].pc = "awaitPatch" /\ ~rcall[k].pending /\ ~rcall[k].rejected)
            => ExactlyOne(rcall[k].resp)
  /\ \A r \in FetchCalls :
       req[r].state = "fulfilled"
         => \A i \in 1..Len(req[r].results) : ExactlyOne(req[r].results[i])
  /\ refetched.site \in {"return48", "return54", "return69"} => ExactlyOne(refetched.ret)

\* C12: patches goes from undefined to a defined value only in the step in
\* which a full fetchAllPatches completes successfully; no other operation
\* populates the cache.
C12_PopulatedOnlyByFullFetch ==
  [][(~IsDefined(patches) /\ IsDefined(patches')) => returned'.site = "return111"]_vars

\* C13: resetAllPatches() leaves patches undefined, and an
\* initStoreIfNeeded() call made while patches is undefined (a project id
\* being resolvable) sends a backend request of its own, whether or not an
\* earlier request is still in flight.
C13_FreshFetchAfterReset ==
  [][/\ resetAllPatches => ~IsDefined(patches')
     /\ \A c \in FetchCalls, t \in BOOLEAN :
          (~IsDefined(patches) /\ initStoreIfNeeded(c, Some(Rid), t))
            => (req[c].state = "none" /\ req'[c].state = "pending")]_vars

Contains(str, sub) ==
  \E i \in 1..(Len(str) + 1), j \in 0..Len(str) : SubSeq(str, i, j) = sub

\* the positions of the cache entries whose id contains s
Matching(ps, s) == {i \in 1..Len(ListOf(ps)) : Contains(ListOf(ps)[i].id, s)}

\* C15: findPatchById(s) returns the first entry of patches, in collection
\* order, whose id contains s, and undefined when no entry does or patches
\* is undefined; the call changes nothing of the store.
C15_FindFirstSubstringMatch ==
  [][found'.called
       => /\ found'.result =
               IF Matching(patches, found'.arg) = {} THEN None
               ELSE Some(ListOf(patches)[First(Matching(patches, found'.arg))])
          /\ UNCHANGED <<patches, lastFetchedTs, inProgressRequest, checkedOutPatch,
                         currentBranch, nodeConnection>>]_vars

\* a part of an id that two cache entries contain was looked up, and the
\* earlier entry came back
C15_Witness ==
  /\ found.called
  /\ Cardinality(Matching(patches, found.arg)) = 2
  /\ found.result = Some(ListOf(patches)[1])
  /\ found.arg \notin IdSet

\* str begins with pre
StartsWith(str, pre) == Len(pre) <= Len(str) /\ SubSeq(str, 1, Len(pre)) = pre

\* the hex characters that follow patch/ in the current branch; the empty
\* string when there is no branch, no patch/ segment or no hex character
BranchHex ==
  IF IsDefined(matchHexCharsAfterPatch(currentBranch))
    THEN Val(matchHexCharsAfterPatch(currentBranch)) ELSE <<>>

\* C16: when the branch name holds patch/<hex> and the cache holds a patch
\* whose id starts with <hex>, checkedOutPatch is a cached patch whose id
\* starts with <hex>; when the branch is undefined, has no patch/ segment
\* or no hex character after it, checkedOutPatch is undefined.
C16_CheckedOutDerivation ==
  /\ (/\ BranchHex # <<>>
      /\ \E i \in 1..Len(ListOf(patches)) : StartsWith(ListOf(patches)[i].id, BranchHex))
       => /\ IsDefined(checkedOutPatch)
          /\ StartsWith(Val(checkedOutPatch).id, BranchHex)
  /\ BranchHex = <<>> => ~IsDefined(checkedOutPatch)

\* what the current patches and the current branch determine: the first
\* cache entry whose id contains the hex characters after patch/
DerivedFromInputs ==
  IF BranchHex = <<>> \/ Matching(patches, BranchHex) = {} THEN None
  ELSE Some(ListOf(patches)[First(Matching(patches, BranchHex))])

\* C17: in every state checkedOutPatch is the value determined by the
\* current patches and the current branch, and a step that only evaluates
\* it again (the branch changed) leaves patches and lastFetchedTs alone.
C17_CheckedOutTracksInputs ==
  /\ [](checkedOutPatch = DerivedFromInputs)
  /\ [][currentBranch' # currentBranch
          => UNCHANGED <<patches, lastFetchedTs, inProgressRequest>>]_vars

\* on a patch/ branch, refetchPatch has just appended the patch the branch
\* names and checkedOutPatch holds it
C17_Witness ==
  /\ refetched.site = "return69" /\ refetched.how = "pushed"
  /\ IsDefined(checkedOutPatch)
  /\ Val(checkedOutPatch).id = refetched.patchId
  /\ Val(checkedOutPatch) = ListOf(patches)[Len(ListOf(patches))]

\* C18: once getNodeConnection() has constructed the adapter, no step
\* replaces it: every later call returns that instance, whatever the
\* setting has been changed to.
C18_SingletonAdapter ==
  [][/\ nodeConnection # "none" => nodeConnection' = nodeConnection
     /\ \A k \in RefetchCalls, id \in IdSet, memo \in RidChoices :
          (nodeConnection # "none" /\ refetchPatchCall(k, id, memo))
            => (rcall'[k].rejected <=> (nodeConnection = "napi" /\ ~IsDefined(memo)))]_vars

\* an earlier call constructed the adapter and filled the cache, the
\* setting now selects the other adapter, and a call is running on the
\* adapter constructed first
C18_Witness ==
  /\ IsDefined(patches)
  /\ nodeConnection # "none"
  /\ useNodeApi # (nodeConnection = "napi")
  /\ \E k \in RefetchCalls : rcall[k].pc = "awaitPatch"

\* the wire request of call r is sent in this step
SendsWireBatch(r) ==
  req[r].state = "none" /\ req'[r].state = "pending" /\ req'[r].conn = "classic"

\* the wire batch of call r fulfils in this step
WireBatchFulfils(r) ==
  req[r].state = "pending" /\ req[r].conn = "classic" /\ req'[r].state = "fulfilled"

\* C19: the wire adapter sends its per-status requests together (each of
\* them faces the node from the moment of the call on) and fulfils with
\* four Results in the order draft, open, archived, merged; each Result is
\* by itself an error or the patches the node held in that status at some
\* moment of the flight, whatever the other three are.
C19_FourIndependentResults ==
  [][\A r \in FetchCalls :
       /\ SendsWireBatch(r) => (req'[r].seen = <<remote>> /\ req'[r].results = <<>>)
       /\ WireBatchFulfils(r)
            => /\ Len(req'[r].results) = 4
               /\ Statuses = <<"draft", "open", "archived", "merged">>
               /\ \A i \in 1..4 :
                    LET result == req'[r].results[i] IN
                    /\ ExactlyOne(result)
                    /\ HasData(result)
                         => /\ \A j \in 1..Len(Val(result.data)) :
                                 Val(result.data)[j].status = Statuses[i]
                            /\ \E n \in 1..Len(req[r].seen) :
                                 Val(result.data) =
                                   PatchesOfStatus(req[r].seen[n], Statuses[i])]_vars

\* a batch came back with an error for one status and patches for another
C19_Witness ==
  \E r \in FetchCalls :
    /\ req[r].state = "fulfilled" /\ req[r].conn = "classic"
    /\ Cardinality({i \in 1..4 : HasError(req[r].results[i])}) = 1
    /\ \E i \in 1..4 : HasData(req[r].results[i]) /\ Val(req[r].results[i].data) # <<>>
    /\ \A i \in 1..4 : HasError(req[r].results[i]) \/ HasData(req[r].results[i])

RECURSIVE OfStatus(_, _)
\* the patches of a list that have the given status, in the list's order
OfStatus(list, status) ==
  IF list = <<>> THEN <<>>
  ELSE (IF Head(list).status = status THEN <<Head(list)>> ELSE <<>>)
       \o OfStatus(Tail(list), status)

\* the four Results the wire adapter gives for the patches of a list
WireShape(list) == [i \in 1..Len(Statuses) |-> Data(OfStatus(list, Statuses[i]))]

\* C20: when a call resumes with the binding adapter's single Result, the
\* store ends with the patches collection and the return value it would
\* end with on the wire adapter's four Results that partition the same
\* patches in the same overall order.
C20_AdapterAgnostic ==
  [][\A c \in FetchCalls :
       (/\ fcall[c].pc = "awaitOwn" /\ Returns(c)
        /\ req[c].state = "fulfilled" /\ req[c].conn = "napi")
         => LET all == Val(req[c].results[1].data)
                wire == WireShape(all)
                out == applyResponses(wire, Val(fcall[c].nowTs), patches)
            IN Flatten([i \in 1..Len(wire) |-> Val(wire[i].data)]) = all
                 => (patches' = out.patches /\ returned'.ret = out.ret)]_vars

\* a fetch through the binding adapter has filled the cache with patches
\* of two statuses
C20_Witness ==
  /\ nodeConnection = "napi"
  /\ returned = [site |-> "return111", ret |-> "true"]
  /\ \E i, j \in 1..Len(ListOf(patches)) :
       ListOf(patches)[i].status # ListOf(patches)[j].status

\* C21: for both adapters getCurrentProjectId() answers with a Result: an
\* error, and no rejection, when no project can be determined for the
\* workspace, and the RID as data otherwise.
C21_GetCurrentProjectIdResult ==
  \A k \in RefetchCalls :
    rcall[k].pc = "awaitRid" =>
      /\ ~rcall[k].rejected
      /\ ExactlyOne(rcall[k].rid)
      /\ HasData(rcall[k].rid) => Val(rcall[k].rid.data) = Rid

\* C22: for both adapters validate(options) returns false whenever the
\* backend is not reachable or usable and true only when it is (it never
\* throws: every call gives a boolean).
C22_ValidateReflectsReachability ==
  validated.called => (validated.ret <=> validated.usable)

\* the timestamps of a patch's revisions
TimestampsOf(patch) == {patch.revisions[i].timestamp : i \in 1..Len(patch.revisions)}

RevisionsOf(patch) == {patch.revisions[i] : i \in 1..Len(patch.revisions)}

\* C23: whatever the storage order of the revisions, firstRevision is a
\* revision of the patch with the minimum timestamp and latestRevision one
\* with the maximum timestamp; with exactly one revision both are that
\* revision; the selection leaves the stored revision order as it was.
C23_EdgeRevisions ==
  /\ [](IsDefined(edgeRevisions) =>
          LET edge == Val(edgeRevisions) IN
          /\ edge.firstRevision \in RevisionsOf(elem)
          /\ edge.latestRevision \in RevisionsOf(elem)
          /\ \A t \in TimestampsOf(elem) :
               edge.firstRevision.timestamp <= t /\ t <= edge.latestRevision.timestamp
          /\ Len(elem.revisions) = 1 =>
               edge.firstRevision = elem.revisions[1] /\ edge.latestRevision = elem.revisions[1])
  /\ [][IsDefined(edgeRevisions') => elem'.revisions = elem.revisions]_vars

\* the spec's example: the latest revision is stored in the middle, the
\* first one at the front, and the selection has run
C23_Witness ==
  /\ IsDefined(edgeRevisions)
  /\ Len(elem.revisions) = 3
  /\ elem.revisions[1].timestamp < elem.revisions[3].timestamp
  /\ elem.revisions[3].timestamp < elem.revisions[2].timestamp
  /\ Val(edgeRevisions).latestRevision = elem.revisions[2]

\* the nodes of the list getChildren returned for the patch
NodesReturned == IF IsDefined(filechangeNodes) THEN Val(filechangeNodes).nodes ELSE <<>>

\* another node of the list has the bare filename of node i
SharesFilename(nodes, i) ==
  \E j \in 1..Len(nodes) :
    j # i /\ Basename(nodes[j].resolvedPath) = Basename(nodes[i].resolvedPath)

\* C24: in the list of file-change nodes of one diff, all kinds together,
\* a node shows its containing directory if and only if at least one other
\* node of the list has the same bare filename.
C24_FilenameDisambiguation ==
  /\ \A i \in 1..Len(NodesReturned) :
       NodesReturned[i].shouldShowPathInDescription <=> SharesFilename(NodesReturned, i)
  /\ filechangeTreeItem.called /\ IsDefined(filechangeTreeItem.item) =>
       LET i == filechangeTreeItem.node
           description == Val(filechangeTreeItem.item).description
       IN /\ IsDefined(description) <=> SharesFilename(NodesReturned, i)
          /\ IsDefined(description) =>
               Val(description) = Dirname(NodesReturned[i].resolvedPath)

\* the item of a moved file that shows its directory because an added file
\* has its name, in a list with a third node that shows none
C24_Witness ==
  /\ filechangeTreeItem.called
  /\ IsDefined(filechangeTreeItem.item)
  /\ IsDefined(Val(filechangeTreeItem.item).description)
  /\ NodesReturned[filechangeTreeItem.node].filechangeKind = "moved"
  /\ \E j \in 1..Len(NodesReturned) :
       /\ NodesReturned[j].filechangeKind = "added"
       /\ NodesReturned[j].shouldShowPathInDescription
  /\ \E j \in 1..Len(NodesReturned) : ~NodesReturned[j].shouldShowPathInDescription

\* the UTF-16 code unit of a character
CodeUnit ==
  [c \in {".", "/", "a", "l", "M", "s", "x"} |->
     CASE c = "." -> 46 [] c = "/" -> 47 [] c = "M" -> 77 [] c = "a" -> 97
       [] c = "l" -> 108 [] c = "s" -> 115 [] OTHER -> 120]

\* how many entries of kind `kind` the diff has for the resolved path
EntriesOf(response, kind, path) ==
  Cardinality({i \in 1..Len(response.diff[kind]) :
     IF kind \in {"copied", "moved"} THEN response.diff[kind][i].newPath = path
     ELSE response.diff[kind][i].path = path})

\* how many nodes of kind `kind` the list has for the resolved path
NodesOf(nodes, kind, path) ==
  Cardinality({i \in 1..Len(nodes) :
     nodes[i].filechangeKind = kind /\ nodes[i].resolvedPath = path})

\* one node per added, deleted, modified, moved and copied entry, the
\* resolved path of a moved or copied file being its new path
OneNodePerFilechange ==
  \A kind \in DOMAIN diffResponse.diff, path \in FilePathSet :
    NodesOf(NodesReturned, kind, path) = EntriesOf(diffResponse, kind, path)

NodesListed == IsDefined(filechangeNodes) /\ ~IsDefined(Val(filechangeNodes).message)

C26_MaterializationFailureIsLocal ==
  /\ [](filechangeTreeItem.called =>
          LET i == filechangeTreeItem.node
              node == NodesReturned[i]
          IN /\ IsDefined(filechangeTreeItem.item)
             /\ Val(filechangeTreeItem.item).label = Basename(node.resolvedPath)
             /\ IsDefined(Val(filechangeTreeItem.item).description)
                  <=> SharesFilename(NodesReturned, i)
             /\ ~(versionFileLocations(node) \subseteq tempFiles) => filechangeTreeItem.logged)
  /\ [](NodesListed =>
          /\ OneNodePerFilechange
          /\ emptyFileLocation \notin tempFiles => Val(filechangeNodes).logged)
  /\ [][filechangeTreeItem'.called => filechangeNodes' = filechangeNodes]_vars

\* the item of a file change, returned after the item of another file
\* change of the list lost a temp file to a failure, the placeholder file
\* having failed as well
C26_Witness ==
  /\ filechangeTreeItem.called
  /\ IsDefined(filechangeTreeItem.item)
  /\ ~filechangeTreeItem.logged
  /\ emptyFileLocation \notin tempFiles
  /\ NodesListed
  /\ \E j \in 1..Len(NodesReturned) :
       /\ j # filechangeTreeItem.node
       /\ NodesReturned[j].filechangeKind = "modified"
       /\ VersionFileLocation("base", NodesReturned[j].resolvedPath) \in tempFiles
       /\ VersionFileLocation("oid", NodesReturned[j].resolvedPath) \notin tempFiles

\* C27: authenticate({minimizeUserNotifications: true}) shows no
\* interactive prompt, neither the error message with its button nor the
\* passphrase input box; it returns true when an identity is authenticated
\* already or the stored passphrase authenticates it, and false otherwise;
\* the user is asked to type a passphrase only when minimizeUserNotifications
\* is false.
C27_MinimizedNeverPrompts ==
  /\ acall.pc \in {"awaitErrorMessage", "awaitInputBox"} =>
       ~acall.minimizeUserNotifications
  /\ authResult.returned /\ authResult.minimizeUserNotifications =>
       /\ ~authResult.shownErrorMessage
       /\ ~authResult.shownInputBox
       /\ authResult.ret <=> authResult.site \in {"return56", "return71"}
       /\ authResult.ret => authed
       /\ ~authResult.ret => ~authed /\ secrets = None

\* a call with minimizeUserNotifications that the stored passphrase
\* authenticated
C27_Witness ==
  /\ authResult.returned
  /\ authResult.minimizeUserNotifications
  /\ authResult.site = "return71"
  /\ authResult.ret
  /\ authed

Settles(r) == req[r].state = "pending" /\ req'[r].state \in {"fulfilled", "rejected"}

\* call c suspends in fetchAllPatches in this step
SuspendsInFetch(c) == fcall[c].pc = "idle" /\ fcall'[c].pc # "idle"

\* C29: the in-flight handle is always released: whenever a backend
\* fetchAllPatches request settles, with Results free of errors, with
\* errors among them or by rejection, the handle is cleared, so that a
\* fetchAllPatches() call made after the request settled sends a new backend
\* request and neither waits on the settled one nor returns without fetching.
C29_HandleAlwaysReleased ==
  /\ [](inProgressRequest # 0 => req[inProgressRequest].state = "pending")
  /\ [][\A r \in FetchCalls : Settles(r) => inProgressRequest' = 0]_vars
  /\ [][\A c \in FetchCalls :
          SuspendsInFetch(c) /\ InFlight = {} =>
            /\ fcall'[c].pc = "awaitOwn"
            /\ req'[c].state = "pending"
            /\ inProgressRequest' = c]_vars

\* a call has sent a request of its own after an earlier request was
\* rejected, its issuer not even resumed yet
C29_Witness ==
  \E c, r \in FetchCalls :
    /\ c # r
    /\ req[r].state = "rejected"
    /\ fcall[r].pc = "awaitOwn"
    /\ fcall[c].pc = "awaitOwn"
    /\ req[c].state = "pending"
    /\ inProgressRequest = c

\* the Patch data the cache holds, without the store's additions
CachedPatchData == [i \in 1..Len(ListOf(patches)) |-> PatchOf(ListOf(patches)[i])]

\* call c, which awaited a request in flight, resolves in this step
CoalescedResolves(c) == fcall[c].pc = "awaitShared" /\ fcall'[c].pc = "idle"

C31_FreshnessMonotonic ==
  [][\A i \in 1..Len(ListOf(patches)), j \in 1..Len(ListOf(patches')) :
       ListOf(patches)[i].id = ListOf(patches')[j].id
         => ListOf(patches')[j].lastFetchedTs >= ListOf(patches)[i].lastFetchedTs]_vars

\* ---- C32
\* the position of a status in the order draft, open, archived, merged
StatusRank(status) == CHOOSE i \in 1..Len(Statuses) : Statuses[i] = status

\* the greatest timestamp among the revisions of a patch
LatestTimestamp(patch) ==
  CHOOSE t \in {patch.revisions[i].timestamp : i \in 1..Len(patch.revisions)} :
    \A i \in 1..Len(patch.revisions) : patch.revisions[i].timestamp <= t

\* how often x occurs in the sequence s
Occurrences(s, x) == Cardinality({i \in 1..Len(s) : s[i] = x})

\* the four requests succeeded and brought at least one patch
RootListed ==
  /\ rootChildren.called
  /\ \A i \in 1..Len(rootChildren.responses) : ~HasError(rootChildren.responses[i])
  /\ Len(responseData(rootChildren.responses)) > 0

\* C32: when all per-status requests succeed and at least one patch
\* exists, the root list getChildren() returns is a permutation of the
\* fetched patches, grouped by status in the order draft, open, archived,
\* merged, and within a status ordered by the timestamp of the latest
\* revision, newest first.
C32_RootListGroupedAndSorted ==
  RootListed =>
    LET out == rootChildren.ret.patches
        fetched == responseData(rootChildren.responses)
    IN /\ rootChildren.ret.message = None
       /\ Len(out) = Len(fetched)
       /\ \A k \in 1..Len(fetched) : Occurrences(out, fetched[k]) = Occurrences(fetched, fetched[k])
       /\ \A i, j \in 1..Len(out) :
            i < j => /\ StatusRank(out[i].state.status) <= StatusRank(out[j].state.status)
                     /\ out[i].state.status = out[j].state.status
                          => LatestTimestamp(out[i]) >= LatestTimestamp(out[j])

\* a listing the sort had to reorder: two patches of one status, the one
\* the node lists first being the older, and a patch of another status
C32_Witness ==
  /\ RootListed
  /\ LET fetched == responseData(rootChildren.responses) IN
       /\ rootChildren.ret.patches # fetched
       /\ \E i, j \in 1..Len(fetched) :
            /\ i < j
            /\ fetched[i].state.status = fetched[j].state.status
            /\ LatestTimestamp(fetched[i]) < LatestTimestamp(fetched[j])
            /\ Len(fetched[j].revisions) > 1
       /\ \E i, j \in 1..Len(fetched) : fetched[i].state.status # fetched[j].state.status

\* ---- C33
\* the call is past its automatic attempt with the stored passphrase
PastAutomaticAttempt ==
  acall.pc \in {"awaitSecretsDelete", "awaitErrorMessage", "awaitInputBox"}

\* C33: in authenticate(), when a passphrase is stored for the identity
\* and authenticating with it fails, the stored passphrase is deleted
\* before the flow continues (nothing is stored while the call is past its
\* automatic attempt); and a passphrase is written to Secret Storage only
\* in the step in which the final authentication with the typed passphrase
\* succeeded, and it is that passphrase.
C33_StaleDeletedStoredAfterAuth ==
  /\ [](PastAutomaticAttempt => secrets = None)
  /\ [][/\ (/\ acall.pc = "awaitSecretsGet" /\ acall' # acall
            /\ IsDefined(secrets) /\ ~radAuth(passphrase, Val(secrets)))
           => (secrets' = None /\ acall'.pc = "awaitSecretsDelete")
        /\ (secrets' # secrets /\ IsDefined(secrets'))
           => /\ authResult'.site = "return144"
              /\ authed'
              /\ secrets' = Some(acall.input)
              /\ radAuth(passphrase', acall.input)]_vars

\* the stored passphrase failed and was deleted; the call has not gone on yet
C33_Witness ==
  /\ acall.pc = "awaitSecretsDelete"
  /\ secrets = None
  /\ ~authed

====
